---- MODULE Spec2Model ----
(***************************************************************************)
(* A model of KiroGate's upstream pipeline.                                *)
(*                                                                         *)
(*   - KiroHttpClient.request_with_retry (kiro_gateway/http_client.py):    *)
(*     one call, its attempts, the credentials it fetches, the requests    *)
(*     it sends, the refreshes and backoff sleeps it performs, and how it  *)
(*     ends.  Specification SpecRetry.                                     *)
(*   - BaseStreamHandler.stream (kiro_gateway/base_stream_handler.py):     *)
(*     one streaming session over an upstream response, the chunks it      *)
(*     yields and the way it ends.  Specification SpecStream.              *)
(*                                                                         *)
(*   - ModelInfoCache (kiro_gateway/cache.py).  Specification SpecCache.   *)
(*   - get_internal_model_id over MODEL_MAPPING (kiro_gateway/config.py).  *)
(*     Specification SpecMapping.                                          *)
(*   - The authentication of inbound requests (kiro_gateway/routes.py).    *)
(*     Specification SpecInbound.                                          *)
(*   - The auth manager's credential refresh (kiro_gateway/auth.py, which  *)
(*     is modelled after section 4.1 of the specification).                *)
(*     Specification SpecAuth.                                             *)
(*   - GlobalHTTPClientManager (kiro_gateway/http_client.py).              *)
(*     Specification SpecClient.                                           *)
(*   - The background refresh task of ModelInfoCache                       *)
(*     (kiro_gateway/cache.py).  Specification SpecTask.                   *)
(*   - MetricsMiddleware and PrometheusMetrics                             *)
(*     (kiro_gateway/middleware.py, metrics.py).  Specification            *)
(*     SpecMetrics.                                                        *)
(*                                                                         *)
(* Each specification moves one component and leaves the others'           *)
(* variables unchanged.                                                    *)
(***************************************************************************)
EXTENDS Integers, Sequences, FiniteSets, TLC

VARIABLES
    \* ---- request_with_retry -------------------------------------------
    stream,          \* the call's `stream` argument
    max_retries,     \* the budget selected at lines 163-168
    base_retry_delay,\* settings.base_retry_delay
    attempt,         \* the loop variable of `for attempt in range(max_retries)`
    token,           \* the local `token` of the current attempt (0: none yet)
    last_error,      \* the local `last_error`
    rr_pc,           \* where the call is: "loop", "send", "refresh", "done"
    rr_result,       \* how the call ended
    rr_log,          \* what the call did, in order
    access_token,    \* the auth manager's current access credential
    \* ---- BaseStreamHandler.stream ---------------------------------------
    sh_pc,           \* where the generator is
    at_yield,        \* whether the generator is suspended at a yield
    request_prompt_tokens, \* local token count of request_messages and request_tools
    delivered,       \* byte chunks the upstream has delivered to the response, in order
    fed,             \* byte chunks fed to the parser, in order
    native_tool_calls, \* the parser's stash, parser.get_tool_calls()
    full_content,    \* self.full_content
    metering_data,   \* self.metering_data
    context_usage_percentage, \* self.context_usage_percentage
    first_chunk_sent,\* the local first_chunk_sent
    all_tool_calls,  \* the local all_tool_calls, once computed
    idx,             \* the index of the next tool call to yield
    out,             \* the chunks yielded so far, in order
    response_closed, \* whether response.aclose() has run
    sh_raised,       \* the exception stream() raised to its consumer
    sh_exit,         \* the way the generator ended: "none" while it runs
    response_kind,   \* what self.response is: an httpx response being streamed,
                     \* or an object whose aiter_bytes() resumes its one stream
    \* ---- ModelInfoCache --------------------------------------------------
    cache,           \* self._cache: model id -> model info
    last_update,     \* self._last_update
    now,             \* time.time()
    max_input_call,  \* the latest get_max_input_tokens call: what it was asked,
                     \* the entry it read and what it returned
    \* ---- get_internal_model_id -------------------------------------------
    mapping_calls,   \* the calls made so far: the name given, whether it is
                     \* what the previous call returned, and the id returned
    \* ---- inbound requests (routes.py) ------------------------------------
    in_request,      \* the request being served: endpoint and the two headers
    in_pc,           \* "idle", "verifying", "handler", "responded"
    in_status,       \* the status of the response (0: none yet)
    in_effects,      \* what serving the request touched: the model cache,
                     \* the upstream
    \* ---- the auth manager (auth.py, after spec 4.1) ----------------------
    am_credential,   \* the access credential held (0: none)
    am_valid,        \* whether it is present and not about to expire
    am_lock,         \* the caller holding the manager's lock (0: free)
    am_pc,           \* per caller: "idle", "waiting", "locked", "refreshing", "done"
    am_op,           \* per caller: "get" or "force"
    am_expired_at_call, \* per caller: whether the credential was expired when it called
    am_got,          \* per caller: the credential returned (0: none, -1: AuthError)
    am_refreshes,    \* refresh requests sent to the auth endpoint
    am_failures,     \* refresh requests that failed
    \* ---- the life of the model cache (cache.py, main.py, routes.py) ------
    cache_ttl,       \* ModelInfoCache._cache_ttl
    rf_pc,           \* per runner (lifespan, background task, /v1/models
                     \* handler): the await it is suspended at
    rf_status,       \* per runner: its latest fetch: "none", "started",
                     \* "published" (update called) or "failed"
    gm_entry,        \* what is_empty() and is_stale() answered when the
                     \* /v1/models handler in progress entered
    bg_cancelled_at, \* the await at which the background task was cancelled
    last_published,  \* the models_data of the update call that completed last
    observed,        \* what a reader of the cache last saw
    \* ---- the global HTTP client (http_client.py) -------------------------
    hc_client,       \* GlobalHTTPClientManager._client: 0 for None, else the
                     \* number of the client in hc_clients
    hc_clients,      \* the clients created so far: timeout and is_closed
    hc_lock,         \* the caller holding GlobalHTTPClientManager._lock (0: free)
    hc_pc,           \* per caller: "idle", "waiting", "closing", "done"
    hc_op,           \* per caller: "none", "get_client" or "close"
    hc_stream,       \* per get_client caller: the `stream` of its request_with_retry
    hc_got,          \* per get_client caller: the client returned (0: none yet)
    hc_closed_at_return, \* per get_client caller: is_closed of that client then
    hc_waited,       \* per caller: whether its call had to wait for the lock
    \* ---- the background refresh task (cache.py) --------------------------
    rt_task,         \* ModelInfoCache._refresh_task: 0 for None, else the
                     \* number of the task in rt_tasks
    rt_tasks,        \* the tasks created so far: where each is, how its
                     \* latest refresh ended, whether it was cancelled
    rt_caller,       \* the owner of the cache: "ready", or "stopping" while
                     \* stop_background_refresh awaits the task
    rt_last_call,    \* the call that returned last: "none", "start", "stop"
    \* ---- metrics (middleware.py, metrics.py) -----------------------------
    mt_pc,           \* per request: "none", "inside" (between entry and exit
                     \* of MetricsMiddleware.dispatch) or "finished"
    mt_endpoint,     \* per request: request.url.path
    request_total,   \* PrometheusMetrics._request_total: key -> count
    error_total,     \* PrometheusMetrics._error_total: error type -> count
    latency_histogram, \* PrometheusMetrics._latency_histogram: endpoint -> counts
    latency_sum,     \* PrometheusMetrics._latency_sum: endpoint -> sum
    latency_count,   \* PrometheusMetrics._latency_count: endpoint -> count
    active_connections, \* PrometheusMetrics._active_connections
    mt_observed,     \* the observe_latency calls made: endpoint, latency -> number
    mt_finished,     \* per endpoint: the requests that have left the middleware
    exported         \* what the latest export_prometheus wrote for the histogram

retryVars == <<stream, max_retries, base_retry_delay, attempt, token, last_error,
               rr_pc, rr_result, rr_log, access_token>>

streamVars == <<sh_pc, at_yield, request_prompt_tokens, delivered, fed, native_tool_calls, full_content,
                metering_data, context_usage_percentage, first_chunk_sent,
                all_tool_calls, idx, out, response_closed, sh_raised, sh_exit,
                response_kind>>

cacheVars == <<cache, last_update, now, max_input_call>>

mappingVars == <<mapping_calls>>

inboundVars == <<in_request, in_pc, in_status, in_effects>>

authVars == <<am_credential, am_valid, am_lock, am_pc, am_op, am_expired_at_call,
              am_got, am_refreshes, am_failures>>

refreshVars == <<cache_ttl, rf_pc, rf_status, gm_entry, bg_cancelled_at,
                 last_published, observed>>

clientVars == <<hc_client, hc_clients, hc_lock, hc_pc, hc_op, hc_stream, hc_got,
                hc_closed_at_return, hc_waited>>

taskVars == <<rt_task, rt_tasks, rt_caller, rt_last_call>>

metricsVars == <<mt_pc, mt_endpoint, request_total, error_total, latency_histogram,
                 latency_sum, latency_count, active_connections, mt_observed,
                 mt_finished, exported>>

vars == <<retryVars, streamVars, cacheVars, mappingVars, inboundVars, authVars,
          refreshVars,
          clientVars,
          taskVars,
          metricsVars>>

\* What each component leaves alone.
notRetryVars == <<metricsVars, taskVars, clientVars, refreshVars, authVars, streamVars, cacheVars, mappingVars, inboundVars>>

notStreamVars == <<metricsVars, taskVars, clientVars, refreshVars, authVars, retryVars, cacheVars, mappingVars, inboundVars>>

notCacheVars == <<metricsVars, taskVars, clientVars, refreshVars, authVars, retryVars, streamVars, mappingVars, inboundVars>>

notMappingVars == <<metricsVars, taskVars, clientVars, refreshVars, authVars, retryVars, streamVars, cacheVars, inboundVars>>

notInboundVars == <<metricsVars, taskVars, clientVars, refreshVars, authVars, retryVars, streamVars, cacheVars, mappingVars>>

notAuthVars == <<metricsVars, taskVars, clientVars, refreshVars, retryVars, streamVars, cacheVars, mappingVars, inboundVars>>

notClientVars ==
    <<metricsVars, taskVars, retryVars, streamVars, cacheVars, mappingVars, inboundVars,
      authVars, refreshVars>>

notTaskVars ==
    <<metricsVars, retryVars, streamVars, cacheVars, mappingVars, inboundVars, authVars,
      refreshVars, clientVars>>

notMetricsVars ==
    <<retryVars, streamVars, cacheVars, mappingVars, inboundVars, authVars, refreshVars, clientVars, taskVars>>

\* What the runners of a model cache refresh leave alone.
notRefreshVars == <<metricsVars, taskVars, clientVars, now, max_input_call, retryVars, streamVars, mappingVars,
                    inboundVars, authVars>>

-----------------------------------------------------------------------------
(* Bounds of the model. *)

\* the longest cache TTL, in clock ticks
MaxCacheTtl == 1

\* the most concurrent users of the global HTTP client
MaxClientCallers == 4

\* the most background refresh tasks created
MaxTasks == 3

\* the most requests passing through the metrics middleware
MaxRequests == 2

\* the most concurrent callers of the auth manager
MaxCallers == 3

\* the most get_internal_model_id calls followed
MaxMappingCalls == 2

\* the most models one ListAvailableModels answer carries
MaxModels == 2

\* the latest clock reading explored
MaxTime == 3

\* the largest attempt budget (settings.max_retries / first_token_max_retries) explored
MaxRetries == 3

\* the largest settings.base_retry_delay explored (in whole seconds)
MaxBaseDelay == 2

\* the largest number of byte chunks an upstream response delivers
MaxChunks == 3

-----------------------------------------------------------------------------
(* request_with_retry *)

\* Status codes upstream answers with: success, the two retried 4xx, two
\* other 4xx and both ends of the 5xx range.
UpstreamStatuses == {200, 400, 403, 404, 429, 500, 599}

\* What client.send / client.request can do on one attempt.
Outcomes ==
    [kind : {"response"}, status : UpstreamStatuses]
    \cup [kind : {"TimeoutException", "RequestError"}, status : {0}]

\* One entry of rr_log: a call of get_access_token or force_refresh with the
\* credential it returned, an auth error either of them raised, a request
\* sent with the credential it carried and its outcome, or a backoff sleep.
Event(ev, a, cred, kind, status, delay) ==
    [ev |-> ev, attempt |-> a, cred |-> cred, kind |-> kind, status |-> status,
     delay |-> delay]

SleepEvent(a, delay) == Event("sleep", a, 0, "none", 0, delay)
AuthErrorEvent(a) == Event("auth_error", a, 0, "none", 0, 0)

\* auth_manager.get_access_token(): the current credential, a newly minted
\* one when the current one is about to expire, or an auth error.
GetAccessTokenOutcomes(current) ==
    { [ok |-> TRUE, cred |-> current], [ok |-> TRUE, cred |-> current + 1],
      [ok |-> FALSE, cred |-> 0] }

\* auth_manager.force_refresh(): a newly minted credential, or an auth error.
ForceRefreshOutcomes(current) ==
    { [ok |-> TRUE, cred |-> current + 1], [ok |-> FALSE, cred |-> 0] }

\* The exception a failed get_access_token / force_refresh raises.
AuthErrorName == "AuthError"

NoResult == [kind |-> "none", exc |-> "none", status |-> 0]
Returned(s) == [kind |-> "return", exc |-> "none", status |-> s]
Raised(e, s) == [kind |-> "raise", exc |-> e, status |-> s]

\* A loop that runs the first try and then max_retries retries.
RetryRange_Inclusive(n) == 0 .. n

\* `for attempt in range(max_retries)`: the attempts the loop runs.
RetryRange(n) == 0 .. (n - 1)

\* A linear schedule in place of the exponential one.
BackoffDelay_Linear(base, a) == base * (a + 1)

\* delay = settings.base_retry_delay * (2 ** attempt)
BackoffDelay(base, a) == base * (2 ^ a)

\* The dispatch with 403 taken for a rate limit: backoff, no refresh.
StatusAction_403Backoff(status) ==
    IF status = 200 THEN "return"
    ELSE IF status = 403 \/ status = 429 THEN "backoff"
    ELSE IF 500 <= status /\ status < 600 THEN "backoff"
    ELSE "return"

\* The dispatch with the retried range starting at 400 instead of 500.
StatusAction_4xxRetried(status) ==
    IF status = 200 THEN "return"
    ELSE IF status = 403 THEN "refresh"
    ELSE IF status = 429 THEN "backoff"
    ELSE IF 400 <= status /\ status < 600 THEN "backoff"
    ELSE "return"

\* The status dispatch of one attempt's response.
StatusAction(status) ==
    IF status = 200 THEN "return"
    ELSE IF status = 403 THEN "refresh"
    ELSE IF status = 429 THEN "backoff"
    ELSE IF 500 <= status /\ status < 600 THEN "backoff"
    ELSE "return"

\* A loop body that catches every exception (`except Exception`).
CaughtByRetryLoop_All(exc) == TRUE

\* The except clauses of the loop body: httpx.TimeoutException (a
\* RequestError, matched first) and httpx.RequestError; nothing else.
CaughtByRetryLoop(exc) == exc \in {"TimeoutException", "RequestError"}

\* Handlers that sleep in either mode.
ExceptionSleeps_Always(exc, isStream) == TRUE

\* Whether the handler of a caught exception sleeps before the next attempt.
ExceptionSleeps(exc, isStream) ==
    IF exc = "TimeoutException" THEN ~isStream ELSE TRUE

\* The credential fetched on the first attempt, reused on every attempt.
RequestCredential_Stale ==
    SelectSeq(rr_log, LAMBDA e : e.ev = "get_access_token")[1].cred

\* The credential the request of this attempt carries:
\* headers = self._get_headers(token).
RequestCredential == token

\* The module imports asyncio, Optional, httpx, logger, KiroAuthManager and
\* settings; the name HTTPException raised at lines 230 and 235 is not bound.
HTTPExceptionImported == FALSE

\* What the statements after the loop raise.
ExhaustionError(isStream) ==
    IF ~HTTPExceptionImported THEN Raised("NameError", 0)
    ELSE IF isStream THEN Raised("HTTPException", 504)
    ELSE Raised("HTTPException", 502)

\* Whether an attempt's outcome leaves an open response behind:
\* client.send(req, stream=True) returns with the body unread and the
\* connection held until aclose(); client.request reads the body and
\* releases the connection itself.
OpensResponse(isStream, kind) == isStream /\ kind = "response"

\* Whether the branch of the status dispatch taken for `status` closes the
\* response before it continues: none of the branches at lines 186-207
\* calls response.aclose().
ClosedByRetryLoop(status) == FALSE

RetryInit ==
    /\ stream \in BOOLEAN
    /\ max_retries \in 1 .. MaxRetries
    /\ base_retry_delay \in 1 .. MaxBaseDelay
    /\ attempt = 0
    /\ token = 0
    /\ last_error = "none"
    /\ rr_pc = "loop"
    /\ rr_result = NoResult
    /\ rr_log = <<>>
    /\ access_token = 1

\* An exception raised inside the try block on attempt `attempt`, after the
\* events `log` were recorded.
HandleException(exc, log) ==
    IF CaughtByRetryLoop(exc)
    THEN /\ last_error' = exc
         /\ rr_log' = IF ExceptionSleeps(exc, stream)
                      THEN Append(log, SleepEvent(attempt,
                                      BackoffDelay(base_retry_delay, attempt)))
                      ELSE log
         /\ attempt' = attempt + 1
         /\ rr_pc' = "loop"
         /\ rr_result' = rr_result
    ELSE /\ rr_log' = log
         /\ rr_pc' = "done"
         /\ rr_result' = Raised(exc, 0)
         /\ UNCHANGED <<attempt, last_error>>

\* token = await self.auth_manager.get_access_token(): the auth manager
\* returns its credential, refreshing it first when it is about to expire,
\* or fails with an auth error.
GetAccessToken ==
    /\ rr_pc = "loop"
    /\ attempt \in RetryRange(max_retries)
    /\ \E r \in GetAccessTokenOutcomes(access_token) :
        IF r.ok
        THEN /\ access_token' = r.cred
             /\ token' = r.cred
             /\ rr_log' = Append(rr_log, Event("get_access_token", attempt, r.cred,
                                               "none", 0, 0))
             /\ rr_pc' = "send"
             /\ UNCHANGED <<attempt, last_error, rr_result>>
        ELSE /\ HandleException(AuthErrorName, Append(rr_log, AuthErrorEvent(attempt)))
             /\ UNCHANGED <<access_token, token>>
    /\ UNCHANGED <<stream, max_retries, base_retry_delay>>
    /\ UNCHANGED notRetryVars

\* client.send / client.request and the status dispatch that follows.
Send ==
    /\ rr_pc = "send"
    /\ \E o \in Outcomes :
        LET sent == Append(rr_log, Event("send", attempt, RequestCredential, o.kind,
                                         o.status, 0)) IN
        IF o.kind # "response" THEN HandleException(o.kind, sent)
        ELSE IF StatusAction(o.status) = "return"
        THEN /\ rr_log' = sent
             /\ rr_pc' = "done"
             /\ rr_result' = Returned(o.status)
             /\ UNCHANGED <<attempt, last_error>>
        ELSE IF StatusAction(o.status) = "refresh"
        THEN /\ rr_log' = sent
             /\ rr_pc' = "refresh"
             /\ UNCHANGED <<attempt, last_error, rr_result>>
        ELSE /\ rr_log' = Append(sent, SleepEvent(attempt,
                                      BackoffDelay(base_retry_delay, attempt)))
             /\ attempt' = attempt + 1
             /\ rr_pc' = "loop"
             /\ UNCHANGED <<last_error, rr_result>>
    /\ UNCHANGED <<stream, max_retries, base_retry_delay, token, access_token>>
    /\ UNCHANGED notRetryVars

\* A 403 branch that refreshes twice before it continues.
ForceRefresh_Twice ==
    /\ rr_pc = "refresh"
    /\ access_token' = access_token + 2
    /\ rr_log' = rr_log \o
           << Event("force_refresh", attempt, access_token + 1, "none", 0, 0),
              Event("force_refresh", attempt, access_token + 2, "none", 0, 0) >>
    /\ attempt' = attempt + 1
    /\ rr_pc' = "loop"
    /\ UNCHANGED <<last_error, rr_result>>
    /\ UNCHANGED <<stream, max_retries, base_retry_delay, token>>
    /\ UNCHANGED notRetryVars

\* A 403 retried without moving to the next attempt.
ForceRefresh_SameAttempt ==
    /\ rr_pc = "refresh"
    /\ \E r \in ForceRefreshOutcomes(access_token) :
        IF r.ok
        THEN /\ access_token' = r.cred
             /\ rr_log' = Append(rr_log, Event("force_refresh", attempt, r.cred,
                                               "none", 0, 0))
             /\ attempt' = attempt
             /\ rr_pc' = "loop"
             /\ UNCHANGED <<last_error, rr_result>>
        ELSE /\ HandleException(AuthErrorName, Append(rr_log, AuthErrorEvent(attempt)))
             /\ UNCHANGED access_token
    /\ UNCHANGED <<stream, max_retries, base_retry_delay, token>>
    /\ UNCHANGED notRetryVars

\* await self.auth_manager.force_refresh(); continue
ForceRefresh ==
    /\ rr_pc = "refresh"
    /\ \E r \in ForceRefreshOutcomes(access_token) :
        IF r.ok
        THEN /\ access_token' = r.cred
             /\ rr_log' = Append(rr_log, Event("force_refresh", attempt, r.cred,
                                               "none", 0, 0))
             /\ attempt' = attempt + 1
             /\ rr_pc' = "loop"
             /\ UNCHANGED <<last_error, rr_result>>
        ELSE /\ HandleException(AuthErrorName, Append(rr_log, AuthErrorEvent(attempt)))
             /\ UNCHANGED access_token
    /\ UNCHANGED <<stream, max_retries, base_retry_delay, token>>
    /\ UNCHANGED notRetryVars

\* The loop is over: every attempt was used without a return.
Exhaust ==
    /\ rr_pc = "loop"
    /\ attempt \notin RetryRange(max_retries)
    /\ rr_pc' = "done"
    /\ rr_result' = ExhaustionError(stream)
    /\ UNCHANGED <<stream, max_retries, base_retry_delay, attempt, token, last_error,
                   rr_log, access_token>>
    /\ UNCHANGED notRetryVars

RetryNext == GetAccessToken \/ Send \/ ForceRefresh \/ Exhaust

-----------------------------------------------------------------------------
(* BaseStreamHandler.stream *)

\* A text is a sequence of tokens; "[T]" and "[U]" are bracket-encoded calls
\* of the tools T and U written out in plain text.
ContentEv(text) == [type |-> "content", text |-> text, num |-> 0, tool |-> "none"]
UsageEv(n) == [type |-> "usage", text |-> <<>>, num |-> n, tool |-> "none"]
ContextUsageEv(p) == [type |-> "context_usage", text |-> <<>>, num |-> p, tool |-> "none"]
ToolUseEv(t) == [type |-> "tool_use", text |-> <<>>, num |-> 0, tool |-> t]

\* A byte chunk is represented by the frames it completes.  Context usage
\* percentages are in units of 10^-6 percent (900 is 0.0009 %).
ByteChunks ==
    { <<>>,
      <<ContentEv(<<"a">>)>>,
      <<ContentEv(<<"a">>), ContentEv(<<"b">>)>>,
      <<ContentEv(<<>>)>>,
      <<ContentEv(<<"[T]">>)>>,
      <<ToolUseEv("T")>>,
      <<ToolUseEv("U"), ContentEv(<<"b">>)>>,
      <<UsageEv(1)>>,
      <<ContextUsageEv(200)>>,
      <<ContextUsageEv(900)>>,
      <<ContextUsageEv(5000), ContentEv(<<"a">>)>> }

\* parser.feed(chunk): the events of the frames the chunk completes; tool-use
\* frames are stashed in the parser and are not among the returned events.
ParserFeed(chunk) == SelectSeq(chunk, LAMBDA e : e.type # "tool_use")

ToolName(e) == e.tool

RECURSIVE MapToolNames(_)
MapToolNames(evs) ==
    IF evs = <<>> THEN <<>>
    ELSE <<ToolName(Head(evs))>> \o MapToolNames(Tail(evs))

\* What the chunk adds to parser.get_tool_calls().
ParserStash(chunk) == MapToolNames(SelectSeq(chunk, LAMBDA e : e.type = "tool_use"))

\* parse_bracket_tool_calls(text): the bracket-encoded calls in the text, in order.
RECURSIVE ParseBracketToolCalls(_)
ParseBracketToolCalls(text) ==
    IF text = <<>> THEN <<>>
    ELSE (IF Head(text) = "[T]" THEN <<"T">>
          ELSE IF Head(text) = "[U]" THEN <<"U">>
          ELSE <<>>) \o ParseBracketToolCalls(Tail(text))

\* deduplicate_tool_calls(calls): the first occurrence of each call, in order.
RECURSIVE DeduplicateToolCalls(_)
DeduplicateToolCalls(calls) ==
    IF calls = <<>> THEN <<>>
    ELSE LET front == SubSeq(calls, 1, Len(calls) - 1)
             last == calls[Len(calls)]
             kept == DeduplicateToolCalls(front)
         IN IF \E i \in DOMAIN kept : kept[i] = last THEN kept ELSE Append(kept, last)

\* count_tokens(text): one token per token of the text.
CountTokens(text) == Len(text)

NoContent == [some |-> FALSE, text |-> <<>>]

\* _process_events: the value it returns, the `content` local after the loop.
RECURSIVE ProcessEventsContent(_, _)
ProcessEventsContent(events, content) ==
    IF events = <<>> THEN content
    ELSE ProcessEventsContent(
            Tail(events),
            IF Head(events).type = "content"
            THEN [some |-> TRUE, text |-> Head(events).text]
            ELSE content)

\* _process_events: self.full_content after the loop.
RECURSIVE ProcessEventsFull(_, _)
ProcessEventsFull(events, full) ==
    IF events = <<>> THEN full
    ELSE ProcessEventsFull(
            Tail(events),
            IF Head(events).type = "content" THEN full \o Head(events).text ELSE full)

\* _process_events: self.metering_data / self.context_usage_percentage after
\* the loop (`field` is "usage" or "context_usage").
RECURSIVE ProcessEventsStash(_, _, _)
ProcessEventsStash(events, field, old) ==
    IF events = <<>> THEN old
    ELSE ProcessEventsStash(
            Tail(events), field,
            IF Head(events).type = field THEN Head(events).num ELSE old)

\* `if first_content:` / `if content:` on the returned value.
Truthy(content) == content.some /\ content.text # <<>>

\* The chunks stream() yields, after _format_*_chunk and _serialize_chunk.
Chunk(type, text, first, tool, index, reason, usage) ==
    [type |-> type, text |-> text, first_chunk |-> first, tool |-> tool,
     index |-> index, finish_reason |-> reason, usage |-> usage]

NoUsage == [prompt_tokens |-> 0, completion_tokens |-> 0, total_tokens |-> 0,
            credits_used |-> 0]

ContentChunk(text, first) == Chunk("content", text, first, "none", 0, "none", NoUsage)
ToolCallsChunk(tc, index) == Chunk("tool_calls", <<>>, FALSE, tc, index, "none", NoUsage)
FinalChunk(reason, usage) == Chunk("final", <<>>, FALSE, "none", 0, reason, usage)
DoneChunk == Chunk("done", <<>>, FALSE, "none", 0, "none", NoUsage)

\* settings.default_max_input_tokens
default_max_input_tokens == 200000

\* model_cache.get_max_input_tokens(self.model), for a model the cache holds
\* no limit of.
GetMaxInputTokens == default_max_input_tokens

\* None, for metering_data and context_usage_percentage
None == -1

\* The API-derived total rounded to the nearest integer instead of truncated.
TotalTokensFromApi_Rounded(pct, maxInput) ==
    IF pct # None /\ pct > 0 THEN (pct * maxInput + 50000000) \div 100000000 ELSE 0

\* int((context_usage_percentage / 100) * max_input_tokens), the percentage
\* in units of 10^-6 percent; int() truncates.
TotalTokensFromApi(pct, maxInput) ==
    IF pct # None /\ pct > 0 THEN (pct * maxInput) \div 100000000 ELSE 0

\* max() that does not clamp.
Max_Second(a, b) == b

Max(a, b) == IF a >= b THEN a ELSE b

\* _calculate_tokens, with credits_used as stream() adds it to the final chunk.
CalculateTokens(full, pct, promptLocal, metering) ==
    LET completion == CountTokens(full)
        api == TotalTokensFromApi(pct, GetMaxInputTokens)
        credits == IF metering # None /\ metering # 0 THEN metering ELSE 0
    IN IF api > 0
       THEN [prompt_tokens |-> Max(0, api - completion),
             completion_tokens |-> completion,
             total_tokens |-> api,
             credits_used |-> credits]
       ELSE [prompt_tokens |-> promptLocal,
             completion_tokens |-> completion,
             total_tokens |-> promptLocal + completion,
             credits_used |-> credits]

\* A finish reason that ignores the tool calls.
FinishReason_AlwaysStop(calls) == "stop"

\* finish_reason = "tool_calls" if all_tool_calls else "stop"
FinishReason(calls) == IF calls # <<>> THEN "tool_calls" ELSE "stop"

\* A loop that never marks a content chunk as the first.
FirstChunkFlag_Never(sent) == FALSE

\* first_chunk passed to _format_content_chunk in the loop over the
\* remaining chunks.
FirstChunkFlag(sent) == ~sent

\* Bracket-extracted calls placed before the native ones.
ReconcileToolCalls_BracketFirst(native, text) ==
    DeduplicateToolCalls(ParseBracketToolCalls(text) \o native)

\* bracket_tool_calls = parse_bracket_tool_calls(self.full_content);
\* all_tool_calls = deduplicate_tool_calls(parser.get_tool_calls() + bracket_tool_calls)
ReconcileToolCalls(native, text) ==
    DeduplicateToolCalls(native \o ParseBracketToolCalls(text))

\* The responses a handler is built over.
ResponseKinds == {"httpx_streamed", "resuming"}

\* self.response.aiter_bytes() in stream(), after _read_first_chunk_with_timeout
\* made and advanced an iterator of its own: httpx refuses to iterate a
\* streamed body a second time (StreamConsumed, raised at the first read);
\* a response that keeps one underlying stream goes on after the first chunk.
SecondAiterBytes(kind) ==
    IF kind = "httpx_streamed" THEN "StreamConsumed" ELSE "resumes"

StreamInit ==
    /\ sh_pc = "start"
    /\ at_yield = FALSE
    /\ request_prompt_tokens \in {0, 3}
    /\ delivered = <<>>
    /\ fed = <<>>
    /\ native_tool_calls = <<>>
    /\ full_content = <<>>
    /\ metering_data = None
    /\ context_usage_percentage = None
    /\ first_chunk_sent = FALSE
    /\ all_tool_calls = <<>>
    /\ idx = 0
    /\ out = <<>>
    /\ response_closed = FALSE
    /\ sh_raised = "none"
    /\ sh_exit = "none"
    /\ response_kind \in ResponseKinds

\* Every exception of the body reaching the consumer.
RaisedToConsumer_All(exc) == exc

\* No exception of the body reaching the consumer.
RaisedToConsumer_Swallow(exc) == "none"

\* The except clauses of stream(): FirstTokenTimeoutError is re-raised, any
\* other Exception is logged and not raised.
RaisedToConsumer(exc) == IF exc = "FirstTokenTimeoutError" THEN exc ELSE "none"

\* A body that closes the response where it returns or catches, with no
\* finally clause: a generator closed at a yield leaves it open.
EndStream_NoFinally(raised, how) ==
    /\ sh_pc' = "ended"
    /\ at_yield' = FALSE
    /\ response_closed' = (how # "abandoned")
    /\ sh_raised' = raised
    /\ sh_exit' = how

\* The finally clause, reached by a return, a caught or propagating
\* exception, or the generator being closed: await self.response.aclose().
EndStream(raised, how) ==
    /\ sh_pc' = "ended"
    /\ at_yield' = FALSE
    /\ response_closed' = TRUE
    /\ sh_raised' = raised
    /\ sh_exit' = how

\* parser.feed(chunk) and _process_events(events, ...) on one byte chunk,
\* then the yield of a content chunk when the returned content is truthy.
FeedChunk(c, first) ==
    LET events == ParserFeed(c)
        content == ProcessEventsContent(events, NoContent)
    IN /\ delivered' = Append(delivered, c)
       /\ fed' = Append(fed, c)
       /\ native_tool_calls' = native_tool_calls \o ParserStash(c)
       /\ full_content' = ProcessEventsFull(events, full_content)
       /\ metering_data' = ProcessEventsStash(events, "usage", metering_data)
       /\ context_usage_percentage' =
              ProcessEventsStash(events, "context_usage", context_usage_percentage)
       /\ IF Truthy(content)
          THEN /\ out' = Append(out, ContentChunk(content.text, first))
               /\ first_chunk_sent' = TRUE
               /\ at_yield' = TRUE
          ELSE /\ out' = out
               /\ first_chunk_sent' = first_chunk_sent
               /\ at_yield' = FALSE
       /\ sh_pc' = "loop"
       /\ UNCHANGED <<request_prompt_tokens, all_tool_calls, idx, response_closed, sh_raised, sh_exit>>

\* An empty response that falls through to the final chunk.
EmptyResponseChunks_FallThrough ==
    << FinalChunk("stop", CalculateTokens(<<>>, None, request_prompt_tokens, None)),
       DoneChunk >>

\* What stream() yields for an empty response before it returns.
EmptyResponseChunks == <<DoneChunk>>

\* _read_first_chunk_with_timeout and the handling of the first chunk.
ReadFirstChunk ==
    /\ sh_pc = "start"
    /\ \/ \* asyncio.TimeoutError: FirstTokenTimeoutError, re-raised by stream()
          /\ EndStream(RaisedToConsumer("FirstTokenTimeoutError"), "timeout")
          /\ UNCHANGED <<request_prompt_tokens, delivered, fed, native_tool_calls,
                         full_content, metering_data, context_usage_percentage,
                         first_chunk_sent, all_tool_calls, idx, out>>
       \/ \* StopAsyncIteration: None is returned, the terminator is yielded
          /\ out' = out \o EmptyResponseChunks
          /\ sh_pc' = "empty_done"
          /\ at_yield' = TRUE
          /\ UNCHANGED <<request_prompt_tokens, delivered, fed, native_tool_calls,
                         full_content, metering_data, context_usage_percentage,
                         first_chunk_sent, all_tool_calls, idx, response_closed,
                         sh_raised, sh_exit>>
       \/ \* any other exception of the read: logged by `except Exception`
          /\ EndStream(RaisedToConsumer("ReadError"), "exception")
          /\ UNCHANGED <<request_prompt_tokens, delivered, fed, native_tool_calls,
                         full_content, metering_data, context_usage_percentage,
                         first_chunk_sent, all_tool_calls, idx, out>>
       \/ \E c \in ByteChunks : FeedChunk(c, TRUE)
    /\ UNCHANGED <<response_kind, notStreamVars>>

\* The loop over a stream that goes on: a chunk, the end, or a transport error.
ResumedRead ==
    /\ sh_pc = "loop"
    /\ \/ /\ Len(delivered) < MaxChunks
          /\ \E c \in ByteChunks : FeedChunk(c, FirstChunkFlag(first_chunk_sent))
       \/ \* upstream EOF: bracket extraction and reconciliation
          /\ all_tool_calls' = ReconcileToolCalls(native_tool_calls, full_content)
          /\ idx' = 0
          /\ sh_pc' = "tool_calls"
          /\ at_yield' = FALSE
          /\ UNCHANGED <<request_prompt_tokens, delivered, fed, native_tool_calls,
                         full_content, metering_data, context_usage_percentage,
                         first_chunk_sent, out, response_closed, sh_raised, sh_exit>>
       \/ /\ EndStream(RaisedToConsumer("ReadError"), "exception")
          /\ UNCHANGED <<request_prompt_tokens, delivered, fed, native_tool_calls,
                         full_content, metering_data, context_usage_percentage,
                         first_chunk_sent, all_tool_calls, idx, out>>

\* One iteration of `async for chunk in self.response.aiter_bytes()`, its
\* end, or an exception raised by it: a transport error, or the response
\* refusing a second iteration of its stream, in which case what the
\* upstream delivers after the first chunk is never read.
ReadNextChunk ==
    /\ sh_pc = "loop"
    /\ \/ /\ SecondAiterBytes(response_kind) = "StreamConsumed"
          /\ EndStream(RaisedToConsumer("StreamConsumed"), "exception")
          /\ \E rest \in {<<>>} \cup {<<c>> : c \in ByteChunks} :
                /\ Len(delivered) + Len(rest) <= MaxChunks
                /\ delivered' = delivered \o rest
          /\ UNCHANGED <<request_prompt_tokens, fed, native_tool_calls,
                         full_content, metering_data, context_usage_percentage,
                         first_chunk_sent, all_tool_calls, idx, out>>
       \/ /\ SecondAiterBytes(response_kind) = "resumes"
          /\ ResumedRead
    /\ UNCHANGED <<response_kind, notStreamVars>>

\* One iteration of `for idx, tc in enumerate(all_tool_calls)`.
EmitToolCall ==
    /\ sh_pc = "tool_calls"
    /\ idx < Len(all_tool_calls)
    /\ out' = Append(out, ToolCallsChunk(all_tool_calls[idx + 1], idx))
    /\ idx' = idx + 1
    /\ at_yield' = TRUE
    /\ UNCHANGED <<sh_pc, request_prompt_tokens, delivered, fed, native_tool_calls,
                   full_content, metering_data, context_usage_percentage,
                   first_chunk_sent, all_tool_calls, response_closed, sh_raised, sh_exit>>
    /\ UNCHANGED <<response_kind, notStreamVars>>

\* The final chunk yielded before the loop over the tool calls.
EmitFinal_BeforeToolCalls ==
    /\ sh_pc = "tool_calls"
    /\ \A i \in DOMAIN out : out[i].type # "final"
    /\ out' = Append(out, FinalChunk(
                  FinishReason(all_tool_calls),
                  CalculateTokens(full_content, context_usage_percentage,
                                  request_prompt_tokens, metering_data)))
    /\ sh_pc' = IF idx >= Len(all_tool_calls) THEN "final_sent" ELSE "tool_calls"
    /\ at_yield' = TRUE
    /\ UNCHANGED <<request_prompt_tokens, delivered, fed, native_tool_calls,
                   full_content, metering_data, context_usage_percentage,
                   first_chunk_sent, all_tool_calls, idx, response_closed, sh_raised, sh_exit>>
    /\ UNCHANGED <<response_kind, notStreamVars>>

\* The final chunk: finish reason and usage.
EmitFinal ==
    /\ sh_pc = "tool_calls"
    /\ idx >= Len(all_tool_calls)
    /\ out' = Append(out, FinalChunk(
                  FinishReason(all_tool_calls),
                  CalculateTokens(full_content, context_usage_percentage,
                                  request_prompt_tokens, metering_data)))
    /\ sh_pc' = "final_sent"
    /\ at_yield' = TRUE
    /\ UNCHANGED <<request_prompt_tokens, delivered, fed, native_tool_calls,
                   full_content, metering_data, context_usage_percentage,
                   first_chunk_sent, all_tool_calls, idx, response_closed, sh_raised, sh_exit>>
    /\ UNCHANGED <<response_kind, notStreamVars>>

\* yield self._serialize_chunk({"type": "done"})
EmitDone ==
    /\ sh_pc = "final_sent"
    /\ out' = Append(out, DoneChunk)
    /\ sh_pc' = "done_sent"
    /\ at_yield' = TRUE
    /\ UNCHANGED <<request_prompt_tokens, delivered, fed, native_tool_calls,
                   full_content, metering_data, context_usage_percentage,
                   first_chunk_sent, all_tool_calls, idx, response_closed, sh_raised, sh_exit>>
    /\ UNCHANGED <<response_kind, notStreamVars>>

\* The consumer resumes the generator after the terminator: the body
\* returns and the finally clause runs.
Finish ==
    /\ sh_pc \in {"done_sent", "empty_done"}
    /\ EndStream("none", IF sh_pc = "empty_done" THEN "empty" ELSE "normal")
    /\ UNCHANGED <<request_prompt_tokens, delivered, fed, native_tool_calls,
                   full_content, metering_data, context_usage_percentage,
                   first_chunk_sent, all_tool_calls, idx, out>>
    /\ UNCHANGED <<response_kind, notStreamVars>>

\* The consumer closes the generator while it is suspended at a yield (the
\* downstream client went away): GeneratorExit is raised at the yield, no
\* except clause matches it, the finally clause runs.
Abandon ==
    /\ at_yield
    /\ sh_pc # "ended"
    /\ EndStream("none", "abandoned")
    /\ UNCHANGED <<request_prompt_tokens, delivered, fed, native_tool_calls,
                   full_content, metering_data, context_usage_percentage,
                   first_chunk_sent, all_tool_calls, idx, out>>
    /\ UNCHANGED <<response_kind, notStreamVars>>

StreamNext ==
    ReadFirstChunk \/ ReadNextChunk \/ EmitToolCall \/ EmitFinal \/ EmitDone
    \/ Finish \/ Abandon

-----------------------------------------------------------------------------
(* ModelInfoCache (cache.py) *)

\* The model ids upstream lists and callers ask about.
ModelIds == {"m1", "m2"}

\* A key a dict does not have.
Absent == -2

\* A maxInputTokens value upstream reports.
SomeMaxInputTokens == 100000

\* The tokenLimits of a model as upstream may send it: the key missing, null,
\* or an object with or without maxInputTokens (null, 0 or a limit) and with
\* `others` further keys.
TokenLimitsValues ==
    { [kind |-> "absent", maxInputTokens |-> Absent, others |-> 0],
      [kind |-> "null", maxInputTokens |-> Absent, others |-> 0],
      [kind |-> "dict", maxInputTokens |-> Absent, others |-> 0],
      [kind |-> "dict", maxInputTokens |-> Absent, others |-> 1],
      [kind |-> "dict", maxInputTokens |-> None, others |-> 0],
      [kind |-> "dict", maxInputTokens |-> 0, others |-> 0],
      [kind |-> "dict", maxInputTokens |-> SomeMaxInputTokens, others |-> 0],
      [kind |-> "dict", maxInputTokens |-> SomeMaxInputTokens, others |-> 1] }

\* A tokenLimits object as upstream documents it.
WellFormedTokenLimits ==
    [kind |-> "dict", maxInputTokens |-> SomeMaxInputTokens, others |-> 1]

\* The model dicts of a ListAvailableModels answer: "m1" with every
\* tokenLimits above, "m2" with a well-formed one or none.
Models ==
    [modelId : {"m1"}, tokenLimits : TokenLimitsValues]
    \cup [modelId : {"m2"},
          tokenLimits : {WellFormedTokenLimits,
                         [kind |-> "absent", maxInputTokens |-> Absent, others |-> 0]}]

\* The answers: lists of at most MaxModels models.
ModelsData == UNION { [1..n -> Models] : n \in 0..MaxModels }

\* DEFAULT_MAX_INPUT_TOKENS = settings.default_max_input_tokens
DEFAULT_MAX_INPUT_TOKENS == default_max_input_tokens

\* {model["modelId"]: model for model in models_data}: a later model of the
\* list replaces an earlier one of the same id.
ModelsById(models_data) ==
    [id \in {models_data[i].modelId : i \in DOMAIN models_data} |->
        LET last == CHOOSE i \in DOMAIN models_data :
                        /\ models_data[i].modelId = id
                        /\ \A j \in DOMAIN models_data :
                              models_data[j].modelId = id => j <= i
        IN models_data[last]]

\* dict.get(key): None for a missing key.
DictGet(value) == IF value = Absent THEN None ELSE value

\* The truth value of model.get("tokenLimits"): false for a missing key,
\* null and the empty object.
TokenLimitsTruthy(tl) ==
    tl.kind = "dict" /\ (tl.maxInputTokens # Absent \/ tl.others > 0)

\* `value or DEFAULT_MAX_INPUT_TOKENS`: None and 0 are false.
OrDefault(value) ==
    IF value = None \/ value = 0 THEN DEFAULT_MAX_INPUT_TOKENS ELSE value

\* get_max_input_tokens returning what the dict holds, without `or DEFAULT`.
get_max_input_tokens_NoOrDefault(c, model_id) ==
    IF model_id \in DOMAIN c /\ TokenLimitsTruthy(c[model_id].tokenLimits)
    THEN DictGet(c[model_id].tokenLimits.maxInputTokens)
    ELSE DEFAULT_MAX_INPUT_TOKENS

\* ModelInfoCache.get_max_input_tokens(model_id) over the cache c.
get_max_input_tokens(c, model_id) ==
    IF model_id \in DOMAIN c /\ TokenLimitsTruthy(c[model_id].tokenLimits)
    THEN OrDefault(DictGet(c[model_id].tokenLimits.maxInputTokens))
    ELSE DEFAULT_MAX_INPUT_TOKENS

\* self._cache.get(model_id) as a one-entry or empty dict.
CacheGet(c, model_id) ==
    [id \in {model_id} \cap DOMAIN c |-> c[id]]

NoCall == [called |-> FALSE, model_id |-> "m1", read |-> <<>>, value |-> None]

\* ModelInfoCache.__init__
CacheInit ==
    /\ cache = <<>>
    /\ last_update = None
    /\ now = 1
    /\ max_input_call = NoCall

\* update merging the new models into the dict held.
NewCache_InPlace(c, models_data) ==
    LET new == ModelsById(models_data)
    IN [id \in DOMAIN c \cup DOMAIN new |->
           IF id \in DOMAIN new THEN new[id] ELSE c[id]]

\* self._cache = {...}: the new dict is built, then bound to the attribute.
NewCache(c, models_data) == ModelsById(models_data)

\* ModelInfoCache.update(models_data)
Update ==
    /\ \E models_data \in ModelsData :
          cache' = NewCache(cache, models_data)
    /\ last_update' = now
    /\ UNCHANGED <<now, max_input_call>>
    /\ UNCHANGED notCacheVars

\* A call of get_max_input_tokens by a request handler.
GetMaxInputTokensCall ==
    /\ \E model_id \in ModelIds :
          max_input_call' = [called |-> TRUE, model_id |-> model_id, read |-> CacheGet(cache, model_id),
                             value |-> get_max_input_tokens(cache, model_id)]
    /\ UNCHANGED <<cache, last_update, now>>
    /\ UNCHANGED notCacheVars

\* The clock advancing.
Tick ==
    /\ now < MaxTime
    /\ now' = now + 1
    /\ UNCHANGED <<cache, last_update, max_input_call>>
    /\ UNCHANGED notCacheVars

CacheNext ==
    \/ Update
    \/ GetMaxInputTokensCall
    \/ Tick

-----------------------------------------------------------------------------
(* The life of the model cache: startup, background refresh, the inline   *)
(* fetch of GET /v1/models, shutdown (main.py, cache.py, routes.py)       *)

\* The coroutines that fetch ListAvailableModels and call update.
Runners == {"lifespan", "background", "get_models"}

\* The models lists upstream answers with here.
RefreshAnswers ==
    { <<>>,
      <<[modelId |-> "m1", tokenLimits |-> WellFormedTokenLimits]>>,
      <<[modelId |-> "m2", tokenLimits |-> WellFormedTokenLimits]>> }

\* ModelInfoCache.is_empty
is_empty(c) == c = <<>>

\* ModelInfoCache.is_stale: `not self._last_update`, then the age against
\* the TTL.
is_stale(lu, t, ttl) ==
    IF lu = None \/ lu = 0 THEN TRUE ELSE t - lu > ttl

\* get_models fetching only when the cache is empty.
NeedsInlineRefresh_OnlyEmpty(c, lu, t, ttl) == is_empty(c)

\* get_models: `if model_cache.is_empty() or model_cache.is_stale():`
NeedsInlineRefresh(c, lu, t, ttl) == is_empty(c) \/ is_stale(lu, t, ttl)

\* What the readers answer on the cache c: get_all_model_ids, size,
\* is_empty, and get for the ids held (None for every other id).
Observation(c) ==
    [get_all_model_ids |-> DOMAIN c,
     size |-> Cardinality(DOMAIN c),
     is_empty |-> is_empty(c),
     get |-> [id \in DOMAIN c |-> c[id]]]

\* No reader was called yet.
NotObserved == [seen |-> FALSE, view |-> Observation(<<>>)]

\* No update call completed yet.
NothingPublished == <<>>

NoEntry == [empty |-> FALSE, stale |-> FALSE]

RefreshInit ==
    /\ cache_ttl \in 1..MaxCacheTtl
    /\ rf_pc = [r \in Runners |->
                   CASE r = "lifespan" -> "start"
                     [] r = "background" -> "none"
                     [] r = "get_models" -> "idle"]
    /\ rf_status = [r \in Runners |-> "none"]
    /\ gm_entry = NoEntry
    /\ bg_cancelled_at = "none"
    /\ last_published = NothingPublished
    /\ observed = NotObserved

\* lifespan, startup: start_background_refresh creates the task; then
\* `if model_cache.is_empty(): await model_cache.refresh()`.
Startup ==
    /\ rf_pc["lifespan"] = "start"
    /\ IF is_empty(cache)
       THEN /\ rf_pc' = [rf_pc EXCEPT !["lifespan"] = "token",
                                      !["background"] = "sleeping"]
            /\ rf_status' = [rf_status EXCEPT !["lifespan"] = "started"]
       ELSE /\ rf_pc' = [rf_pc EXCEPT !["lifespan"] = "serving",
                                      !["background"] = "sleeping"]
            /\ UNCHANGED rf_status
    /\ UNCHANGED <<cache, last_update, cache_ttl, gm_entry, bg_cancelled_at,
                   last_published, observed>>
    /\ UNCHANGED notRefreshVars

\* _background_refresh_loop: asyncio.sleep returns, refresh() is called and
\* awaits the access token.
Wake ==
    /\ rf_pc["background"] = "sleeping"
    /\ rf_pc' = [rf_pc EXCEPT !["background"] = "token"]
    /\ rf_status' = [rf_status EXCEPT !["background"] = "started"]
    /\ UNCHANGED <<cache, last_update, cache_ttl, gm_entry, bg_cancelled_at,
                   last_published, observed>>
    /\ UNCHANGED notRefreshVars

\* GET /v1/models arrives: the handler fetches inline when the cache is
\* empty or stale, and otherwise answers at once.
GetModelsArrives ==
    /\ rf_pc["lifespan"] = "serving"
    /\ rf_pc["get_models"] \in {"idle", "answered"}
    /\ gm_entry' = [empty |-> is_empty(cache),
                    stale |-> is_stale(last_update, now, cache_ttl)]
    /\ IF NeedsInlineRefresh(cache, last_update, now, cache_ttl)
       THEN /\ rf_pc' = [rf_pc EXCEPT !["get_models"] = "token"]
            /\ rf_status' = [rf_status EXCEPT !["get_models"] = "started"]
       ELSE /\ rf_pc' = [rf_pc EXCEPT !["get_models"] = "answered"]
            /\ rf_status' = [rf_status EXCEPT !["get_models"] = "none"]
    /\ UNCHANGED <<cache, last_update, cache_ttl, bg_cancelled_at,
                   last_published, observed>>
    /\ UNCHANGED notRefreshVars

\* Where a runner goes on when its refresh is over: the lifespan yields to
\* the application, the background loop sleeps again, the handler returns
\* the models list.
AfterRefresh(r) ==
    CASE r = "lifespan" -> "serving"
      [] r = "background" -> "sleeping"
      [] r = "get_models" -> "answered"

\* Where a runner goes on when client.get is over: the background task
\* awaits the exit of `async with httpx.AsyncClient` first.
AfterFetch(r) ==
    IF r = "background" THEN "closing" ELSE AfterRefresh(r)

\* `await auth_manager.get_access_token()` returns, or raises and the
\* runner's `except Exception` logs it.
GotToken(r) ==
    /\ rf_pc[r] = "token"
    /\ \/ /\ rf_pc' = [rf_pc EXCEPT ![r] = "fetch"]
          /\ UNCHANGED rf_status
       \/ /\ rf_pc' = [rf_pc EXCEPT ![r] = AfterRefresh(r)]
          /\ rf_status' = [rf_status EXCEPT ![r] = "failed"]
    /\ UNCHANGED <<cache, last_update, cache_ttl, gm_entry, bg_cancelled_at,
                   last_published, observed>>
    /\ UNCHANGED notRefreshVars

\* A fetch that drops the models held when it fails.
Fetched_FailureClears(r) ==
    /\ rf_pc[r] = "fetch"
    /\ rf_pc' = [rf_pc EXCEPT ![r] = AfterFetch(r)]
    /\ \/ \E models_data \in RefreshAnswers :
             /\ cache' = NewCache(cache, models_data)
             /\ last_update' = now
             /\ last_published' = <<models_data>>
             /\ rf_status' = [rf_status EXCEPT ![r] = "published"]
       \/ /\ rf_status' = [rf_status EXCEPT ![r] = "failed"]
          /\ cache' = <<>>
          /\ UNCHANGED <<last_update, last_published>>
    /\ UNCHANGED <<cache_ttl, gm_entry, bg_cancelled_at, observed>>
    /\ UNCHANGED notRefreshVars

\* `await client.get(ListAvailableModels)` returns: with 200 update is
\* called with the models; any other status and any exception leave the
\* cache as it is.
Fetched(r) ==
    /\ rf_pc[r] = "fetch"
    /\ rf_pc' = [rf_pc EXCEPT ![r] = AfterFetch(r)]
    /\ \/ \E models_data \in RefreshAnswers :
             /\ cache' = NewCache(cache, models_data)
             /\ last_update' = now
             /\ last_published' = <<models_data>>
             /\ rf_status' = [rf_status EXCEPT ![r] = "published"]
       \/ /\ rf_status' = [rf_status EXCEPT ![r] = "failed"]
          /\ UNCHANGED <<cache, last_update, last_published>>
    /\ UNCHANGED <<cache_ttl, gm_entry, bg_cancelled_at, observed>>
    /\ UNCHANGED notRefreshVars

\* The background task's HTTP client is closed; the loop sleeps again.
Closed ==
    /\ rf_pc["background"] = "closing"
    /\ rf_pc' = [rf_pc EXCEPT !["background"] = "sleeping"]
    /\ UNCHANGED <<cache, last_update, cache_ttl, rf_status, gm_entry,
                   bg_cancelled_at, last_published, observed>>
    /\ UNCHANGED notRefreshVars

\* A reader (get, get_max_input_tokens, get_all_model_ids, size, is_empty)
\* called by a request handler.
ReadCache ==
    /\ rf_pc["lifespan"] = "serving"
    /\ observed' = [seen |-> TRUE, view |-> Observation(cache)]
    /\ UNCHANGED <<cache, last_update, cache_ttl, rf_pc, rf_status, gm_entry,
                   bg_cancelled_at, last_published>>
    /\ UNCHANGED notRefreshVars

\* Shutdown with a task that finishes the refresh it is in, publishing
\* it, before it stops.
StopBackgroundRefresh_CompletesIteration ==
    /\ rf_pc["lifespan"] = "serving"
    /\ bg_cancelled_at' = rf_pc["background"]
    /\ rf_pc' = [rf_pc EXCEPT !["lifespan"] = "stopped",
                              !["background"] = "stopped"]
    /\ IF rf_pc["background"] \in {"token", "fetch"}
       THEN \E models_data \in RefreshAnswers :
               /\ cache' = NewCache(cache, models_data)
               /\ last_update' = now
               /\ last_published' = <<models_data>>
               /\ rf_status' = [rf_status EXCEPT !["background"] = "published"]
       ELSE UNCHANGED <<cache, last_update, last_published, rf_status>>
    /\ UNCHANGED <<cache_ttl, gm_entry, observed>>
    /\ UNCHANGED notRefreshVars

\* lifespan, shutdown: stop_background_refresh cancels the task and awaits
\* it.  CancelledError is raised at the await the task is suspended at;
\* refresh's `except Exception` does not catch it, the loop's
\* `except asyncio.CancelledError: break` does.
StopBackgroundRefresh ==
    /\ rf_pc["lifespan"] = "serving"
    /\ bg_cancelled_at' = rf_pc["background"]
    /\ rf_pc' = [rf_pc EXCEPT !["lifespan"] = "stopped",
                              !["background"] = "stopped"]
    /\ UNCHANGED <<cache, last_update, cache_ttl, rf_status, gm_entry,
                   last_published, observed>>
    /\ UNCHANGED notRefreshVars

RefreshNext ==
    \/ Startup
    \/ Wake
    \/ GetModelsArrives
    \/ \E r \in Runners : GotToken(r)
    \/ \E r \in Runners : Fetched(r)
    \/ Closed
    \/ ReadCache
    \/ StopBackgroundRefresh
    \/ Tick

-----------------------------------------------------------------------------
(* Model name mapping (config.py) *)

\* MODEL_MAPPING with "auto" pointing at an alias instead of an upstream id.
MODEL_MAPPING_AutoToAlias ==
    ("claude-opus-4-5" :> "claude-opus-4.5")
    @@ ("claude-opus-4-5-20251101" :> "claude-opus-4.5")
    @@ ("claude-haiku-4-5" :> "claude-haiku-4.5")
    @@ ("claude-haiku-4.5" :> "claude-haiku-4.5")
    @@ ("claude-sonnet-4-5" :> "CLAUDE_SONNET_4_5_20250929_V1_0")
    @@ ("claude-sonnet-4-5-20250929" :> "CLAUDE_SONNET_4_5_20250929_V1_0")
    @@ ("claude-sonnet-4" :> "CLAUDE_SONNET_4_20250514_V1_0")
    @@ ("claude-sonnet-4-20250514" :> "CLAUDE_SONNET_4_20250514_V1_0")
    @@ ("claude-3-7-sonnet-20250219" :> "CLAUDE_3_7_SONNET_20250219_V1_0")
    @@ ("auto" :> "claude-sonnet-4-5")

\* MODEL_MAPPING: external model name -> upstream model id.
MODEL_MAPPING ==
    ("claude-opus-4-5" :> "claude-opus-4.5")
    @@ ("claude-opus-4-5-20251101" :> "claude-opus-4.5")
    @@ ("claude-haiku-4-5" :> "claude-haiku-4.5")
    @@ ("claude-haiku-4.5" :> "claude-haiku-4.5")
    @@ ("claude-sonnet-4-5" :> "CLAUDE_SONNET_4_5_20250929_V1_0")
    @@ ("claude-sonnet-4-5-20250929" :> "CLAUDE_SONNET_4_5_20250929_V1_0")
    @@ ("claude-sonnet-4" :> "CLAUDE_SONNET_4_20250514_V1_0")
    @@ ("claude-sonnet-4-20250514" :> "CLAUDE_SONNET_4_20250514_V1_0")
    @@ ("claude-3-7-sonnet-20250219" :> "CLAUDE_3_7_SONNET_20250219_V1_0")
    @@ ("auto" :> "claude-sonnet-4.5")

\* AVAILABLE_MODELS: the model ids /v1/models advertises.
AVAILABLE_MODELS ==
    << "claude-opus-4-5",
       "claude-opus-4-5-20251101",
       "claude-haiku-4-5",
       "claude-sonnet-4-5",
       "claude-sonnet-4-5-20250929",
       "claude-sonnet-4",
       "claude-sonnet-4-20250514",
       "claude-3-7-sonnet-20250219" >>

\* The names a request may carry: every name of the table, every upstream
\* id, and names the table does not know (one differing from a table name
\* only in case, and the empty name).
ExternalModels ==
    DOMAIN MODEL_MAPPING
    \cup {MODEL_MAPPING[n] : n \in DOMAIN MODEL_MAPPING}
    \cup {"gpt-4", "Claude-Opus-4-5", ""}

\* dict.get(key, default)
DictGetOr(d, key, default) == IF key \in DOMAIN d THEN d[key] ELSE default

\* get_internal_model_id(external_model)
get_internal_model_id(external_model) ==
    DictGetOr(MODEL_MAPPING, external_model, external_model)

MappingInit == mapping_calls = <<>>

\* A call of get_internal_model_id with the model name of a request.
MapModel ==
    /\ Len(mapping_calls) < MaxMappingCalls
    /\ \E external_model \in ExternalModels :
          mapping_calls' = Append(mapping_calls,
              [external_model |-> external_model, chained |-> FALSE,
               internal |-> get_internal_model_id(external_model)])
    /\ UNCHANGED notMappingVars

\* A call of get_internal_model_id with what the previous call returned.
MapAgain ==
    /\ mapping_calls # <<>>
    /\ Len(mapping_calls) < MaxMappingCalls
    /\ LET previous == mapping_calls[Len(mapping_calls)].internal
       IN mapping_calls' = Append(mapping_calls,
              [external_model |-> previous, chained |-> TRUE,
               internal |-> get_internal_model_id(previous)])
    /\ UNCHANGED notMappingVars

MappingNext ==
    \/ MapModel
    \/ MapAgain

-----------------------------------------------------------------------------
(* Inbound authentication (routes.py) *)

\* PROXY_API_KEY
PROXY_API_KEY == "key"

\* A header the request does not carry (the parameter is None).
NoHeader == "<no header>"

\* The values of the Authorization and x-api-key headers: missing, empty,
\* the key bare and as a bearer credential, wrong credentials, the scheme in
\* another case, and a value with a character outside ASCII (<E9> stands
\* for the byte 0xE9, which the framework decodes as latin-1).
HeaderValues ==
    { NoHeader, "", PROXY_API_KEY, "Bearer " \o PROXY_API_KEY, "wrong",
      "Bearer wrong", "bearer " \o PROXY_API_KEY, "Bearer cl<E9>" }

IsAscii(value) == value # "Bearer cl<E9>"

\* The endpoints behind a key.
Endpoints == {"/v1/models", "/v1/chat/completions", "/v1/messages"}

Requests == [endpoint : Endpoints, authorization : HeaderValues, x_api_key : HeaderValues]

\* The truth value of a header parameter: None and "" are false.
HeaderTruthy(value) == value # NoHeader /\ value # ""

\* secrets.compare_digest(a, b) on two str: TypeError unless both are ASCII.
CompareDigest(a, b) ==
    IF ~IsAscii(a) \/ ~IsAscii(b) THEN "TypeError"
    ELSE IF a = b THEN "equal" ELSE "different"

\* verify_api_key(auth_header): "ok", "401", or the exception it lets out.
verify_api_key(auth_header) ==
    IF ~HeaderTruthy(auth_header) THEN "401"
    ELSE LET cmp == CompareDigest(auth_header, "Bearer " \o PROXY_API_KEY)
         IN IF cmp = "TypeError" THEN "TypeError"
            ELSE IF cmp = "equal" THEN "ok" ELSE "401"

\* verify_anthropic_api_key(x_api_key, auth_header)
verify_anthropic_api_key(x_api_key, auth_header) ==
    LET first == IF HeaderTruthy(x_api_key)
                 THEN CompareDigest(x_api_key, PROXY_API_KEY) ELSE "different"
        second == IF HeaderTruthy(auth_header)
                  THEN CompareDigest(auth_header, "Bearer " \o PROXY_API_KEY)
                  ELSE "different"
    IN IF first = "TypeError" THEN "TypeError"
       ELSE IF first = "equal" THEN "ok"
       ELSE IF second = "TypeError" THEN "TypeError"
       ELSE IF second = "equal" THEN "ok"
       ELSE "401"

\* The dependency of each route.
RouteDependency(request) ==
    IF request.endpoint = "/v1/messages"
    THEN verify_anthropic_api_key(request.x_api_key, request.authorization)
    ELSE verify_api_key(request.authorization)

NoRequest == [endpoint : {"none"}, authorization : {NoHeader}, x_api_key : {NoHeader}]

InboundInit ==
    /\ in_request \in NoRequest
    /\ in_pc = "idle"
    /\ in_status = 0
    /\ in_effects = {}

\* A request arrives at one of the three routes.
Arrive ==
    /\ in_pc = "idle"
    /\ in_request' \in Requests
    /\ in_pc' = "verifying"
    /\ UNCHANGED <<in_status, in_effects>>
    /\ UNCHANGED notInboundVars

\* The route's dependency runs before the endpoint function: it returns,
\* raises HTTPException(401), or lets out the TypeError of compare_digest,
\* which the application answers with 500.
Verify ==
    /\ in_pc = "verifying"
    /\ LET verdict == RouteDependency(in_request)
       IN IF verdict = "ok"
          THEN in_pc' = "handler" /\ in_status' = in_status
          ELSE /\ in_pc' = "responded"
               /\ in_status' = IF verdict = "401" THEN 401 ELSE 500
    /\ UNCHANGED <<in_request, in_effects>>
    /\ UNCHANGED notInboundVars

\* The endpoint function at work: get_models reads the model cache and may
\* fetch the models upstream; the two completion routes go upstream.
HandlerWorks ==
    /\ in_pc = "handler"
    /\ \E effect \in (IF in_request.endpoint = "/v1/models"
                      THEN {"cache", "upstream"} ELSE {"upstream"}) :
          /\ effect \notin in_effects
          /\ in_effects' = in_effects \cup {effect}
    /\ UNCHANGED <<in_request, in_pc, in_status>>
    /\ UNCHANGED notInboundVars

\* The endpoint answers, or the rate limiter wrapped around it refuses.
Respond ==
    /\ in_pc = "handler"
    /\ in_pc' = "responded"
    /\ \/ in_status' = 200
       \/ in_effects = {} /\ in_status' = 429
    /\ UNCHANGED <<in_request, in_effects>>
    /\ UNCHANGED notInboundVars

InboundNext ==
    \/ Arrive
    \/ Verify
    \/ HandlerWorks
    \/ Respond

-----------------------------------------------------------------------------
(* The auth manager (auth.py; after section 4.1 of the specification) *)

\* The callers of the manager: retry attempts of concurrent requests, the
\* model cache refresher, the /v1/models handler.
Callers == 1..MaxCallers

\* The refresh is decided on what the caller saw when it called, before it
\* had the lock.
RefreshNeeded_CheckedAtCall(caller, valid_now) ==
    am_op[caller] = "force" \/ am_expired_at_call[caller]

\* Whether the caller holding the lock performs a refresh: always for
\* force_refresh; for get_access_token when the credential is absent or
\* about to expire at that moment.
RefreshNeeded(caller, valid_now) ==
    am_op[caller] = "force" \/ ~valid_now

AuthInit ==
    /\ am_credential \in {0, 1}
    /\ am_valid \in BOOLEAN
    /\ am_credential = 0 => ~am_valid
    /\ am_lock = 0
    /\ am_pc = [c \in Callers |-> "idle"]
    /\ am_op = [c \in Callers |-> "get"]
    /\ am_expired_at_call = [c \in Callers |-> FALSE]
    /\ am_got = [c \in Callers |-> 0]
    /\ am_refreshes = 0
    /\ am_failures = 0

\* A caller calls get_access_token or force_refresh and waits for the lock.
CallAuthManager(caller) ==
    /\ am_pc[caller] = "idle"
    /\ \E op \in {"get", "force"} : am_op' = [am_op EXCEPT ![caller] = op]
    /\ am_expired_at_call' = [am_expired_at_call EXCEPT ![caller] = ~am_valid]
    /\ am_pc' = [am_pc EXCEPT ![caller] = "waiting"]
    /\ UNCHANGED <<am_credential, am_valid, am_lock, am_got, am_refreshes, am_failures>>
    /\ UNCHANGED notAuthVars

\* A waiting caller gets the lock.
AcquireAuthLock(caller) ==
    /\ am_pc[caller] = "waiting"
    /\ am_lock = 0
    /\ am_lock' = caller
    /\ am_pc' = [am_pc EXCEPT ![caller] = "locked"]
    /\ UNCHANGED <<am_credential, am_valid, am_op, am_expired_at_call, am_got,
                   am_refreshes, am_failures>>
    /\ UNCHANGED notAuthVars

\* Under the lock: send the refresh request, or return the credential held.
DecideRefresh(caller) ==
    /\ am_pc[caller] = "locked"
    /\ IF RefreshNeeded(caller, am_valid)
       THEN /\ am_pc' = [am_pc EXCEPT ![caller] = "refreshing"]
            /\ am_refreshes' = am_refreshes + 1
            /\ am_valid' = FALSE
            /\ UNCHANGED <<am_lock, am_got>>
       ELSE /\ am_pc' = [am_pc EXCEPT ![caller] = "done"]
            /\ am_got' = [am_got EXCEPT ![caller] = am_credential]
            /\ am_lock' = 0
            /\ UNCHANGED <<am_refreshes, am_valid>>
    /\ UNCHANGED <<am_credential, am_op, am_expired_at_call, am_failures>>
    /\ UNCHANGED notAuthVars

\* The auth endpoint answers the refresh request: a newly minted credential,
\* or a failure surfaced to the caller as an AuthError.
RefreshAnswered(caller) ==
    /\ am_pc[caller] = "refreshing"
    /\ \/ /\ am_credential' = am_credential + 1
          /\ am_valid' = TRUE
          /\ am_got' = [am_got EXCEPT ![caller] = am_credential + 1]
          /\ UNCHANGED am_failures
       \/ /\ am_failures' = am_failures + 1
          /\ am_got' = [am_got EXCEPT ![caller] = -1]
          /\ UNCHANGED <<am_credential, am_valid>>
    /\ am_pc' = [am_pc EXCEPT ![caller] = "done"]
    /\ am_lock' = 0
    /\ UNCHANGED <<am_op, am_expired_at_call, am_refreshes>>
    /\ UNCHANGED notAuthVars

AuthNext ==
    \E caller \in Callers :
        \/ CallAuthManager(caller)
        \/ AcquireAuthLock(caller)
        \/ DecideRefresh(caller)
        \/ RefreshAnswered(caller)

-----------------------------------------------------------------------------
(* The global HTTP client (http_client.py) *)

\* The coroutines that use the manager: request_with_retry calls of
\* concurrent requests, and close_global_http_client.
ClientCallers == 1..MaxClientCallers

\* settings.first_token_timeout
FIRST_TOKEN_TIMEOUT == 15

\* `timeout = 300` of a non-streaming call
NonStreamingTimeout == 300

\* request_with_retry, lines 163-168: the timeout the call selects.
SelectedTimeout(isStream) ==
    IF isStream THEN FIRST_TOKEN_TIMEOUT ELSE NonStreamingTimeout

\* get_client creating a client only when there is none.
NeedsNewClient_OnlyNone(client, clients) == client = 0

\* get_client: `if self._client is None or self._client.is_closed:`
NeedsNewClient(client, clients) == client = 0 \/ clients[client].closed

\* The timeout a request sent through a client runs under: build_request,
\* send and request are called without a timeout argument, so the client's
\* own.
TimeoutInForce(clients, c) == clients[c].timeout

ClientInit ==
    /\ hc_client = 0
    /\ hc_clients = <<>>
    /\ hc_lock = 0
    /\ hc_pc = [c \in ClientCallers |-> "idle"]
    /\ hc_op = [c \in ClientCallers |-> "none"]
    /\ hc_stream = [c \in ClientCallers |-> FALSE]
    /\ hc_got = [c \in ClientCallers |-> 0]
    /\ hc_closed_at_return = [c \in ClientCallers |-> FALSE]
    /\ hc_waited = [c \in ClientCallers |-> FALSE]

\* The body of get_client under the lock, for caller c asking for `timeout`:
\* the client is created if needed, and returned; the lock is released on
\* the way out.
GetClientBody(c, timeout) ==
    /\ IF NeedsNewClient(hc_client, hc_clients)
       THEN /\ hc_clients' = Append(hc_clients, [timeout |-> timeout, closed |-> FALSE])
            /\ hc_client' = Len(hc_clients) + 1
       ELSE UNCHANGED <<hc_client, hc_clients>>
    /\ hc_got' = [hc_got EXCEPT ![c] = hc_client']
    /\ hc_closed_at_return' =
          [hc_closed_at_return EXCEPT ![c] = hc_clients'[hc_client'].closed]
    /\ hc_pc' = [hc_pc EXCEPT ![c] = "done"]
    /\ hc_lock' = 0

\* request_with_retry selects its timeout and calls get_client: with the
\* lock free the call runs to its return without suspending, otherwise it
\* waits for the lock.
CallGetClient(c) ==
    /\ hc_pc[c] = "idle"
    /\ \E isStream \in BOOLEAN :
          /\ hc_stream' = [hc_stream EXCEPT ![c] = isStream]
          /\ hc_op' = [hc_op EXCEPT ![c] = "get_client"]
          /\ IF hc_lock = 0
             THEN GetClientBody(c, SelectedTimeout(isStream)) /\ UNCHANGED hc_waited
             ELSE /\ hc_pc' = [hc_pc EXCEPT ![c] = "waiting"]
                  /\ hc_waited' = [hc_waited EXCEPT ![c] = TRUE]
                  /\ UNCHANGED <<hc_client, hc_clients, hc_lock, hc_got,
                                 hc_closed_at_return>>
    /\ UNCHANGED notClientVars

\* A get_client call that waited gets the lock.
ResumeGetClient(c) ==
    /\ hc_pc[c] = "waiting"
    /\ hc_op[c] = "get_client"
    /\ hc_lock = 0
    /\ GetClientBody(c, SelectedTimeout(hc_stream[c]))
    /\ UNCHANGED <<hc_op, hc_stream, hc_waited>>
    /\ UNCHANGED notClientVars

\* The body of close under the lock: `await self._client.aclose()` marks
\* the client closed and suspends with the lock held; with no open client
\* there is nothing to do.
CloseBody(c) ==
    IF hc_client # 0 /\ ~hc_clients[hc_client].closed
    THEN /\ hc_clients' = [hc_clients EXCEPT ![hc_client].closed = TRUE]
         /\ hc_lock' = c
         /\ hc_pc' = [hc_pc EXCEPT ![c] = "closing"]
    ELSE /\ hc_pc' = [hc_pc EXCEPT ![c] = "done"]
         /\ hc_lock' = 0
         /\ UNCHANGED hc_clients

\* close_global_http_client calls close.
CallClose(c) ==
    /\ hc_pc[c] = "idle"
    /\ hc_op' = [hc_op EXCEPT ![c] = "close"]
    /\ IF hc_lock = 0
       THEN CloseBody(c) /\ UNCHANGED hc_waited
       ELSE /\ hc_pc' = [hc_pc EXCEPT ![c] = "waiting"]
            /\ hc_waited' = [hc_waited EXCEPT ![c] = TRUE]
            /\ UNCHANGED <<hc_clients, hc_lock>>
    /\ UNCHANGED <<hc_client, hc_stream, hc_got, hc_closed_at_return>>
    /\ UNCHANGED notClientVars

\* A close call that waited gets the lock.
ResumeClose(c) ==
    /\ hc_pc[c] = "waiting"
    /\ hc_op[c] = "close"
    /\ hc_lock = 0
    /\ CloseBody(c)
    /\ UNCHANGED <<hc_client, hc_op, hc_stream, hc_got, hc_closed_at_return,
                   hc_waited>>
    /\ UNCHANGED notClientVars

\* aclose() returns; close leaves the lock.
AcloseReturns(c) ==
    /\ hc_pc[c] = "closing"
    /\ hc_lock = c
    /\ hc_lock' = 0
    /\ hc_pc' = [hc_pc EXCEPT ![c] = "done"]
    /\ UNCHANGED <<hc_client, hc_clients, hc_op, hc_stream, hc_got,
                   hc_closed_at_return, hc_waited>>
    /\ UNCHANGED notClientVars

ClientNext ==
    \E c \in ClientCallers :
        \/ CallGetClient(c)
        \/ ResumeGetClient(c)
        \/ CallClose(c)
        \/ ResumeClose(c)
        \/ AcloseReturns(c)

-----------------------------------------------------------------------------
(* The background refresh task of the model cache (cache.py) *)

\* Task.done()
TaskDone(t) == t.at = "done"

\* start_background_refresh creating a task on every call.
NeedsNewTask_Always(task, tasks) == TRUE

\* start_background_refresh:
\* `if self._refresh_task and not self._refresh_task.done(): return`
NeedsNewTask(task, tasks) == task = 0 \/ TaskDone(tasks[task])

\* ModelInfoCache.is_background_refresh_running
is_background_refresh_running(task, tasks) ==
    task # 0 /\ ~TaskDone(tasks[task])

\* asyncio.create_task(self._background_refresh_loop()): the loop starts
\* by sleeping.
NewTask == [at |-> "sleeping", refresh |-> "none", cancelled |-> FALSE]

TaskInit ==
    /\ rt_task = 0
    /\ rt_tasks = <<>>
    /\ rt_caller = "ready"
    /\ rt_last_call = "none"

\* start_background_refresh()
StartBackgroundRefresh ==
    /\ rt_caller = "ready"
    /\ NeedsNewTask(rt_task, rt_tasks) => Len(rt_tasks) < MaxTasks
    /\ IF NeedsNewTask(rt_task, rt_tasks)
       THEN /\ rt_tasks' = Append(rt_tasks, NewTask)
            /\ rt_task' = Len(rt_tasks) + 1
       ELSE UNCHANGED <<rt_task, rt_tasks>>
    /\ rt_last_call' = "start"
    /\ UNCHANGED rt_caller
    /\ UNCHANGED notTaskVars

\* _background_refresh_loop: the sleep of a task is over, refresh() is
\* called.
TaskWakes(i) ==
    /\ i \in DOMAIN rt_tasks
    /\ rt_tasks[i].at = "sleeping"
    /\ ~rt_tasks[i].cancelled
    /\ rt_tasks' = [rt_tasks EXCEPT ![i].at = "refreshing"]
    /\ UNCHANGED <<rt_task, rt_caller, rt_last_call>>
    /\ UNCHANGED notTaskVars

\* refresh() returns True or False; the loop sleeps again.
TaskRefreshReturns(i) ==
    /\ i \in DOMAIN rt_tasks
    /\ rt_tasks[i].at = "refreshing"
    /\ ~rt_tasks[i].cancelled
    /\ \E result \in {"True", "False"} :
          rt_tasks' = [rt_tasks EXCEPT ![i].at = "sleeping", ![i].refresh = result]
    /\ UNCHANGED <<rt_task, rt_caller, rt_last_call>>
    /\ UNCHANGED notTaskVars

\* stop_background_refresh(): a task that is not done is cancelled and
\* awaited; otherwise the call returns at once.
CallStopBackgroundRefresh ==
    /\ rt_caller = "ready"
    /\ IF is_background_refresh_running(rt_task, rt_tasks)
       THEN /\ rt_tasks' = [rt_tasks EXCEPT ![rt_task].cancelled = TRUE]
            /\ rt_caller' = "stopping"
            /\ UNCHANGED rt_last_call
       ELSE /\ rt_last_call' = "stop"
            /\ UNCHANGED <<rt_tasks, rt_caller>>
    /\ UNCHANGED rt_task
    /\ UNCHANGED notTaskVars

\* A cancelled task runs next: CancelledError is raised at its await, in
\* the sleep or inside refresh, and the loop's
\* `except asyncio.CancelledError: break` ends it.
TaskEnds(i) ==
    /\ i \in DOMAIN rt_tasks
    /\ rt_tasks[i].cancelled
    /\ ~TaskDone(rt_tasks[i])
    /\ rt_tasks' = [rt_tasks EXCEPT ![i].at = "done"]
    /\ UNCHANGED <<rt_task, rt_caller, rt_last_call>>
    /\ UNCHANGED notTaskVars

\* `await self._refresh_task` is over: stop_background_refresh returns.
StopBackgroundRefreshReturns ==
    /\ rt_caller = "stopping"
    /\ TaskDone(rt_tasks[rt_task])
    /\ rt_caller' = "ready"
    /\ rt_last_call' = "stop"
    /\ UNCHANGED <<rt_task, rt_tasks>>
    /\ UNCHANGED notTaskVars

TaskNext ==
    \/ StartBackgroundRefresh
    \/ \E i \in 1..MaxTasks : TaskWakes(i)
    \/ \E i \in 1..MaxTasks : TaskRefreshReturns(i)
    \/ \E i \in 1..MaxTasks : TaskEnds(i)
    \/ CallStopBackgroundRefresh
    \/ StopBackgroundRefreshReturns

-----------------------------------------------------------------------------
(* Metrics: MetricsMiddleware.dispatch and PrometheusMetrics               *)
(* (middleware.py, metrics.py)                                             *)

\* Strings are sequences of pieces, ":" being a piece of its own, so that
\* formatting a key and splitting it again are computed as the code does.
Colon == ":"

\* The request slots.
MetricRequests == 1..MaxRequests

\* request.url.path: a route of the gateway, and a path with a colon in it.
MetricEndpoints == { <<"/v1/models">>, <<"/v1/models", Colon, "x">> }

\* The model names the middleware finds: "unknown" unless a handler stored
\* one in request.state.
MetricModels == {"unknown", "claude"}

\* float('inf')
Inf == -1

\* LATENCY_BUCKETS, in hundredths of a second.
LATENCY_BUCKETS == <<10, 25, 50, 100, 250, 500, 1000, 3000, 6000, 12000, Inf>>

\* `latency <= le`
Leq(latency, le) == le = Inf \/ latency <= le

\* The process times measured, in hundredths of a second.
Latencies == {30, 20000}

\* How call_next ends: a response (also one built from an HTTPException by
\* the exception middleware below), an exception, or the cancellation of
\* the request's task.
CallNextOutcomes ==
    [kind : {"response"}, status : {"200", "404"}, model : MetricModels]
    \cup [kind : {"Exception", "CancelledError"}, status : {"500"}, model : {"unknown"}]

\* key = f"{endpoint}:{status_code}:{model}"
FormatKey(endpoint, status, model) == endpoint \o <<Colon, status, Colon, model>>

\* str.split(":")
RECURSIVE Split(_)
Split(str) ==
    IF \A i \in DOMAIN str : str[i] # Colon THEN <<str>>
    ELSE LET at == CHOOSE i \in DOMAIN str :
                       str[i] = Colon /\ \A j \in 1..(i - 1) : str[j] # Colon
         IN <<SubSeq(str, 1, at - 1)>> \o Split(SubSeq(str, at + 1, Len(str)))

RECURSIVE SumOf(_, _)
SumOf(f, keys) ==
    IF keys = {} THEN 0
    ELSE LET k == CHOOSE k \in keys : TRUE IN f[k] + SumOf(f, keys \ {k})

\* _aggregate_by_endpoint: the counts summed under key.split(":")[0].
AggregateByEndpoint(total) ==
    [e \in {Split(k)[1] : k \in DOMAIN total} |->
        SumOf(total, {k \in DOMAIN total : Split(k)[1] = e})]

\* defaultdict(int)[key] += n
Incremented(d, key, n) ==
    [k \in DOMAIN d \cup {key} |->
        (IF k \in DOMAIN d THEN d[k] ELSE 0) + (IF k = key THEN n ELSE 0)]

\* defaultdict(lambda: [0] * len(LATENCY_BUCKETS))
EmptyHistogram == [i \in DOMAIN LATENCY_BUCKETS |-> 0]

\* observe_latency's loop over the buckets.
Observed(h, endpoint, latency) ==
    LET old == IF endpoint \in DOMAIN h THEN h[endpoint] ELSE EmptyHistogram
    IN [e \in DOMAIN h \cup {endpoint} |->
           IF e = endpoint
           THEN [i \in DOMAIN LATENCY_BUCKETS |->
                    IF Leq(latency, LATENCY_BUCKETS[i]) THEN old[i] + 1 ELSE old[i]]
           ELSE h[e]]

RECURSIVE Cumulative(_, _)
\* export_prometheus: `cumulative += count` up to bucket i.
Cumulative(counts, i) ==
    IF i = 0 THEN 0 ELSE Cumulative(counts, i - 1) + counts[i]

\* The histogram lines of export_prometheus: per endpoint the value of each
\* bucket line and of the _count line.
ExportHistogram(h, count) ==
    [e \in DOMAIN h |->
        [bucket |-> [i \in DOMAIN LATENCY_BUCKETS |-> Cumulative(h[e], i)],
         count |-> count[e]]]

\* The bookkeeping of the try body and of `except Exception`; nothing for
\* an exception that is not an Exception.
RecordsRequest(kind) == kind \in {"response", "Exception"}

\* A decrement on the return path only.
DecrementsOn_ResponseOnly(kind) == kind = "response"

\* `finally: metrics.dec_active_connections()`
DecrementsOn(kind) == TRUE

\* dec_active_connections: max(0, n - 1)
Decremented(n) == IF n - 1 >= 0 THEN n - 1 ELSE 0

NothingExported == [seen |-> FALSE, lines |-> <<>>, observed |-> <<>>]

MetricsInit ==
    /\ mt_pc = [r \in MetricRequests |-> "none"]
    /\ mt_endpoint = [r \in MetricRequests |-> <<"/v1/models">>]
    /\ request_total = <<>>
    /\ error_total = <<>>
    /\ latency_histogram = <<>>
    /\ latency_sum = <<>>
    /\ latency_count = <<>>
    /\ active_connections = 0
    /\ mt_observed = [e \in MetricEndpoints, l \in Latencies |-> 0]
    /\ mt_finished = [e \in MetricEndpoints |-> 0]
    /\ exported = NothingExported

\* dispatch up to `await call_next(request)`.
EnterMiddleware(r) ==
    /\ mt_pc[r] = "none"
    /\ \E endpoint \in MetricEndpoints :
          mt_endpoint' = [mt_endpoint EXCEPT ![r] = endpoint]
    /\ mt_pc' = [mt_pc EXCEPT ![r] = "inside"]
    /\ active_connections' = active_connections + 1
    /\ UNCHANGED <<request_total, error_total, latency_histogram, latency_sum,
                   latency_count, mt_observed, mt_finished, exported>>
    /\ UNCHANGED notMetricsVars

\* dispatch from the return of call_next to its own end: the try body or
\* the except clause, then the finally clause.
LeaveMiddleware(r) ==
    /\ mt_pc[r] = "inside"
    /\ mt_pc' = [mt_pc EXCEPT ![r] = "finished"]
    /\ \E o \in CallNextOutcomes, latency \in Latencies :
          LET endpoint == mt_endpoint[r] IN
          /\ IF RecordsRequest(o.kind)
             THEN /\ request_total' =
                        Incremented(request_total, FormatKey(endpoint, o.status, o.model), 1)
                  /\ latency_histogram' = Observed(latency_histogram, endpoint, latency)
                  /\ latency_sum' = Incremented(latency_sum, endpoint, latency)
                  /\ latency_count' = Incremented(latency_count, endpoint, 1)
                  /\ mt_observed' = [mt_observed EXCEPT ![endpoint, latency] = @ + 1]
             ELSE UNCHANGED <<request_total, latency_histogram, latency_sum,
                              latency_count, mt_observed>>
          /\ error_total' = IF o.kind = "Exception"
                            THEN Incremented(error_total, "RuntimeError", 1)
                            ELSE error_total
          /\ active_connections' = IF DecrementsOn(o.kind)
                                   THEN Decremented(active_connections)
                                   ELSE active_connections
          /\ mt_finished' = [mt_finished EXCEPT ![endpoint] = @ + 1]
    /\ UNCHANGED <<mt_endpoint, exported>>
    /\ UNCHANGED notMetricsVars

\* export_prometheus, as called by the /metrics route.
ExportPrometheus ==
    /\ exported' = [seen |-> TRUE,
                    lines |-> ExportHistogram(latency_histogram, latency_count),
                    observed |-> mt_observed]
    /\ UNCHANGED <<mt_pc, mt_endpoint, request_total, error_total,
                   latency_histogram, latency_sum, latency_count,
                   active_connections, mt_observed, mt_finished>>
    /\ UNCHANGED notMetricsVars

MetricsNext ==
    \/ \E r \in MetricRequests : EnterMiddleware(r)
    \/ \E r \in MetricRequests : LeaveMiddleware(r)
    \/ ExportPrometheus

-----------------------------------------------------------------------------
(* Specifications *)

\* The component a specification leaves alone stays in one initial state.
RetryIdle == RetryInit /\ ~stream /\ max_retries = 1 /\ base_retry_delay = 1

StreamIdle == StreamInit /\ request_prompt_tokens = 0 /\ response_kind = "resuming"

CacheIdle == CacheInit

MappingIdle == MappingInit

InboundIdle == InboundInit

AuthIdle == AuthInit /\ am_credential = 1 /\ am_valid

RefreshIdle == RefreshInit /\ cache_ttl = 1

MetricsIdle == MetricsInit

TaskIdle == TaskInit

ClientIdle == ClientInit

\* One call of request_with_retry.
InitRetry == RetryInit /\ StreamIdle /\ CacheIdle /\ MappingIdle /\ InboundIdle /\ AuthIdle /\ RefreshIdle /\ ClientIdle /\ TaskIdle /\ MetricsIdle

SpecRetry == InitRetry /\ [][RetryNext]_vars

\* The same call on an event loop that keeps running it: every await of the
\* call (credential, request under the client's timeouts, sleep) completes.
SpecRetryFair == InitRetry /\ [][RetryNext]_vars /\ WF_vars(RetryNext)

\* One stream() generator over one upstream response.
InitStream == StreamInit /\ RetryIdle /\ CacheIdle /\ MappingIdle /\ InboundIdle /\ AuthIdle /\ RefreshIdle /\ ClientIdle /\ TaskIdle /\ MetricsIdle

SpecStream == InitStream /\ [][StreamNext]_vars

\* One ModelInfoCache, updated and read.
InitCache == CacheInit /\ RetryIdle /\ StreamIdle /\ MappingIdle /\ InboundIdle /\ AuthIdle /\ RefreshIdle /\ ClientIdle /\ TaskIdle /\ MetricsIdle

SpecCache == InitCache /\ [][CacheNext]_vars

\* Calls of get_internal_model_id.
InitMapping == MappingInit /\ RetryIdle /\ StreamIdle /\ CacheIdle /\ InboundIdle /\ AuthIdle /\ RefreshIdle /\ ClientIdle /\ TaskIdle /\ MetricsIdle

SpecMapping == InitMapping /\ [][MappingNext]_vars

\* One inbound request to a route behind the proxy key.
InitInbound == InboundInit /\ RetryIdle /\ StreamIdle /\ CacheIdle /\ MappingIdle /\ AuthIdle /\ RefreshIdle /\ ClientIdle /\ TaskIdle /\ MetricsIdle

SpecInbound == InitInbound /\ [][InboundNext]_vars

\* Concurrent callers of the auth manager.
InitAuth ==
    /\ AuthInit /\ RetryIdle /\ StreamIdle /\ CacheIdle /\ MappingIdle
    /\ InboundIdle /\ RefreshIdle
    /\ ClientIdle
    /\ TaskIdle
    /\ MetricsIdle

SpecAuth == InitAuth /\ [][AuthNext]_vars

\* The model cache from startup to shutdown.
InitCacheRefresh ==
    /\ CacheInit /\ RefreshInit /\ RetryIdle /\ StreamIdle /\ MappingIdle
    /\ InboundIdle /\ AuthIdle
    /\ ClientIdle
    /\ TaskIdle
    /\ MetricsIdle

SpecCacheRefresh == InitCacheRefresh /\ [][RefreshNext]_vars

\* Concurrent users of the global HTTP client.
InitClient ==
    /\ ClientInit /\ RetryIdle /\ StreamIdle /\ CacheIdle /\ MappingIdle
    /\ InboundIdle /\ AuthIdle /\ RefreshIdle
    /\ TaskIdle
    /\ MetricsIdle

SpecClient == InitClient /\ [][ClientNext]_vars

\* The background refresh task, started and stopped by its owner.
InitTask ==
    /\ TaskInit /\ RetryIdle /\ StreamIdle /\ CacheIdle /\ MappingIdle
    /\ InboundIdle /\ AuthIdle /\ RefreshIdle /\ ClientIdle
    /\ MetricsIdle

SpecTask == InitTask /\ [][TaskNext]_vars

\* Requests passing through MetricsMiddleware, and scrapes.
InitMetrics ==
    /\ MetricsInit /\ RetryIdle /\ StreamIdle /\ CacheIdle /\ MappingIdle
    /\ InboundIdle /\ AuthIdle /\ RefreshIdle /\ ClientIdle /\ TaskIdle

SpecMetrics == InitMetrics /\ [][MetricsNext]_vars

-----------------------------------------------------------------------------
(* Properties of request_with_retry, checked under SpecRetry *)

\* The requests the call has sent, in order.
Sends == SelectSeq(rr_log, LAMBDA e : e.ev = "send")

NumSends == Len(Sends)

NumRefreshes == Cardinality({i \in DOMAIN rr_log : rr_log[i].ev = "force_refresh"})

Sleeps == SelectSeq(rr_log, LAMBDA e : e.ev = "sleep")

NoAuthError == \A i \in DOMAIN rr_log : rr_log[i].ev # "auth_error"

IsStatus(e, s) == e.ev = "send" /\ e.kind = "response" /\ e.status = s

RECURSIVE Pow2(_)
Pow2(n) == IF n = 0 THEN 1 ELSE 2 * Pow2(n - 1)

\* The call ended because the loop ran out of attempts.
Exhausted == rr_pc = "done" /\ attempt = max_retries

\* Upstream answered every request of the finished call with 429.
AllAnswered429 ==
    /\ rr_pc = "done"
    /\ NoAuthError
    /\ \A i \in DOMAIN Sends : IsStatus(Sends[i], 429)

\* C1 as stated: when upstream answers every attempt with 429, the call
\* sends exactly max_retries + 1 requests and then fails.
C1_RetryBudget429 ==
    AllAnswered429 => (rr_result.kind = "raise" /\ NumSends = max_retries + 1)

\* C1, amended: when upstream answers every attempt with 429, the call sends
\* exactly max_retries requests and then fails; while it runs it has sent
\* at most max_retries.
C1_RetryBudgetIsMaxRetries ==
    /\ AllAnswered429 => (rr_result.kind = "raise" /\ NumSends = max_retries)
    /\ NumSends <= max_retries

\* C1's case: a budget of three used up by three 429 responses.
C1_Witness ==
    /\ AllAnswered429
    /\ max_retries = 3
    /\ NumSends = 3
    /\ rr_result.kind = "raise"

\* C3: an exhausted non-streaming call fails with an upstream error of
\* status 502; a streaming call exhausted by first-byte timeouts fails with
\* an upstream error of status 504.
C3_ExhaustionOutcome ==
    Exhausted =>
        /\ ~stream => rr_result = Raised("HTTPException", 502)
        /\ (stream /\ \A i \in DOMAIN Sends : Sends[i].kind = "TimeoutException")
               => rr_result = Raised("HTTPException", 504)

\* C4: a 403 response is followed by exactly one force_refresh and no
\* backoff sleep, the next attempt has the next index (the 403 used up one
\* unit of the budget), and for the responses 403, 200 the caller gets the
\* 200 after one refresh and two requests.
C4_Refresh403 ==
    /\ \A i \in DOMAIN rr_log :
          IsStatus(rr_log[i], 403) =>
             /\ i = Len(rr_log) => rr_pc = "refresh" /\ attempt = rr_log[i].attempt
             /\ i < Len(rr_log) =>
                   /\ rr_log[i + 1].ev \in {"force_refresh", "auth_error"}
                   /\ rr_log[i + 1].attempt = rr_log[i].attempt
             /\ (i + 1 = Len(rr_log) /\ rr_log[i + 1].ev = "force_refresh") =>
                   /\ rr_pc \in {"loop", "done"}
                   /\ attempt = rr_log[i].attempt + 1
             /\ i + 1 < Len(rr_log) =>
                   /\ rr_log[i + 2].ev \in {"get_access_token", "auth_error"}
                   /\ rr_log[i + 2].attempt = rr_log[i].attempt + 1
    /\ (/\ NumSends = 2
        /\ IsStatus(Sends[1], 403)
        /\ IsStatus(Sends[2], 200))
       => (rr_result = Returned(200) /\ NumRefreshes = 1)

\* C4's case: the responses 403, 200, and the 200 returned.
C4_Witness ==
    /\ rr_result = Returned(200)
    /\ NumSends = 2
    /\ IsStatus(Sends[1], 403)
    /\ NumRefreshes = 1

\* C5 as stated: force_refresh is invoked at most once within one call.
C5_AtMostOneRefresh == NumRefreshes <= 1

Num403 == Cardinality({i \in DOMAIN rr_log : IsStatus(rr_log[i], 403)})

\* C5, amended: force_refresh is invoked only in answer to a 403 response
\* and at most once for each, hence at most max_retries times in one call.
C5_OneRefreshPer403 ==
    /\ \A i \in DOMAIN rr_log :
          rr_log[i].ev = "force_refresh" =>
             /\ i > 1
             /\ IsStatus(rr_log[i - 1], 403)
             /\ rr_log[i - 1].attempt = rr_log[i].attempt
    /\ NumRefreshes <= Num403
    /\ Num403 <= max_retries

\* C5's case: three 403 responses in one call, each answered by a refresh.
C5_Witness ==
    /\ NumRefreshes = 3
    /\ Num403 = 3
    /\ rr_pc = "done"

\* C6: an auth error raised by get_access_token or force_refresh ends the
\* call: nothing is sent or slept after it, and the auth error itself is
\* what the caller gets.
C6_AuthFailureFatal ==
    \A i \in DOMAIN rr_log :
        rr_log[i].ev = "auth_error" =>
            /\ i = Len(rr_log)
            /\ rr_pc = "done"
            /\ rr_result = Raised("AuthError", 0)

\* C6's cases: force_refresh failing after a 403 on a later attempt, with
\* budget left.
C6_Witness ==
    /\ rr_result = Raised("AuthError", 0)
    /\ NumSends >= 2
    /\ IsStatus(Sends[NumSends], 403)
    /\ attempt + 1 < max_retries

\* C7: every request is preceded by a get_access_token call of the same
\* attempt and carries the credential that call returned.
C7_FreshCredentialPerAttempt ==
    /\ \A i \in DOMAIN rr_log :
          rr_log[i].ev = "send" =>
             /\ i > 1
             /\ rr_log[i - 1].ev = "get_access_token"
             /\ rr_log[i - 1].attempt = rr_log[i].attempt
             /\ rr_log[i - 1].cred = rr_log[i].cred
    /\ rr_pc = "send" =>
          /\ rr_log # <<>>
          /\ rr_log[Len(rr_log)].ev = "get_access_token"
          /\ rr_log[Len(rr_log)].attempt = attempt

\* C7's case: a retry whose request carries another credential than the
\* first request did.
C7_Witness ==
    /\ NumSends >= 3
    /\ Sends[1].cred # Sends[2].cred
    /\ Sends[2].cred # Sends[3].cred

IsTimeout(e) == e.ev = "send" /\ e.kind = "TimeoutException"

C9_BackoffSchedule ==
    \A i \in DOMAIN rr_log :
        (\/ IsStatus(rr_log[i], 429)
         \/ (rr_log[i].ev = "send" /\ rr_log[i].kind = "response"
             /\ rr_log[i].status \in 500 .. 599)
         \/ (rr_log[i].ev = "send" /\ rr_log[i].kind = "RequestError")) =>
            /\ i < Len(rr_log)
            /\ rr_log[i + 1].ev = "sleep"
            /\ rr_log[i + 1].delay = base_retry_delay * Pow2(rr_log[i].attempt)
            /\ i + 1 < Len(rr_log) =>
                  /\ rr_log[i + 2].ev \in {"get_access_token", "auth_error"}
                  /\ rr_log[i + 2].attempt = rr_log[i].attempt + 1

\* C9's case: three consecutive failures of the three kinds, slept base,
\* 2 base and 4 base with base = 2.
C9_Witness ==
    /\ base_retry_delay = 2
    /\ NumSends = 3
    /\ IsStatus(Sends[1], 429)
    /\ IsStatus(Sends[2], 500)
    /\ Sends[3].kind = "RequestError"
    /\ Len(Sleeps) = 3
    /\ Sleeps[1].delay = 2 /\ Sleeps[2].delay = 4 /\ Sleeps[3].delay = 8

\* C10: a 200, or a 4xx other than 403 and 429, is returned at once: it is
\* the last thing the call does and it is the call's result.
C10_ImmediateReturn ==
    \A i \in DOMAIN rr_log :
        (/\ rr_log[i].ev = "send"
         /\ rr_log[i].kind = "response"
         /\ \/ rr_log[i].status = 200
            \/ (rr_log[i].status \in 400 .. 499 /\ rr_log[i].status \notin {403, 429})) =>
            /\ i = Len(rr_log)
            /\ rr_pc = "done"
            /\ rr_result = Returned(rr_log[i].status)

\* C10's case: a 404 returned on a retry, with budget left.
C10_Witness ==
    /\ rr_result = Returned(404)
    /\ NumSends = 2
    /\ max_retries = 3

\* C30: the call never makes more than max_retries attempts, and it ends:
\* it returns a response or raises an error.
C30_Terminates ==
    /\ [](attempt <= max_retries /\ NumSends <= max_retries)
    /\ <>(rr_pc = "done" /\ rr_result # NoResult)

\* C30's case: a call that used a budget of three attempts on a 403, a
\* timeout and a network error, and then ended.
C30_Witness ==
    /\ rr_pc = "done"
    /\ rr_result # NoResult
    /\ max_retries = 3
    /\ NumSends = 3
    /\ IsStatus(Sends[1], 403)
    /\ Sends[2].kind = "TimeoutException"
    /\ Sends[3].kind = "RequestError"

-----------------------------------------------------------------------------
(* Properties of BaseStreamHandler.stream, checked under SpecStream *)

ChunkRank(type) ==
    IF type = "content" THEN 0
    ELSE IF type = "tool_calls" THEN 1
    ELSE IF type = "final" THEN 2
    ELSE 3

\* C2: in the chunks yielded so far, content chunks precede tool-call
\* chunks, which precede the final chunk, which precedes the terminator;
\* nothing follows the terminator.
C2_StreamingOrder ==
    /\ \A i, j \in DOMAIN out :
          i < j => /\ ChunkRank(out[i].type) <= ChunkRank(out[j].type)
                   /\ out[i].type # "done"
                   /\ out[i].type = "final" => out[j].type = "done"

\* C2's case: a finished stream that yielded content, two tool calls, the
\* final chunk and the terminator.
C2_Witness ==
    /\ sh_pc = "ended"
    /\ Len(out) >= 5
    /\ out[1].type = "content"
    /\ out[Len(out) - 3].type = "tool_calls"
    /\ out[Len(out) - 2].type = "tool_calls"
    /\ out[Len(out) - 1].type = "final"
    /\ out[Len(out)].type = "done"

ContentChunks == SelectSeq(out, LAMBDA c : c.type = "content")

ToolCallChunks == SelectSeq(out, LAMBDA c : c.type = "tool_calls")

FinalChunks == SelectSeq(out, LAMBDA c : c.type = "final")

Exits == {"normal", "empty", "timeout", "exception", "abandoned"}

\* C11: the generator has ended exactly when it took one of its five exits
\* (normal completion, empty response, first-byte timeout, exception,
\* abandonment at a yield), and on each of them the response is closed.
C11_ResponseClosedOnExit ==
    /\ sh_exit \in Exits \cup {"none"}
    /\ (sh_pc = "ended") <=> (sh_exit \in Exits)
    /\ sh_exit \in Exits => response_closed

\* C11's case: a consumer that went away after a content chunk, before the
\* upstream ended, with the response closed behind it.
C11_Witness ==
    /\ sh_exit = "abandoned"
    /\ Len(out) >= 1
    /\ out[Len(out)].type = "content"
    /\ response_closed

RECURSIVE ConcatTexts(_)
ConcatTexts(chunks) ==
    IF chunks = <<>> THEN <<>>
    ELSE Head(chunks).text \o ConcatTexts(Tail(chunks))

\* C12 as stated: the texts of the content chunks emitted so far,
\* concatenated, are the accumulated text.
C12_EmittedTextIsAccumulatedText == ConcatTexts(ContentChunks) = full_content

\* C13: a content chunk is marked first_chunk exactly when no content chunk
\* was emitted before it, so that a stream with content has exactly one
\* marked chunk, its earliest.
C13_FirstChunkMarking ==
    /\ \A i \in DOMAIN ContentChunks : ContentChunks[i].first_chunk <=> (i = 1)
    /\ first_chunk_sent <=> (ContentChunks # <<>>)

\* C13's case: the first byte chunk carried no content, the next two did;
\* the first of the two content chunks is marked, the second is not.
C13_Witness ==
    /\ Len(fed) = 3
    /\ ~Truthy(ProcessEventsContent(ParserFeed(fed[1]), NoContent))
    /\ Len(ContentChunks) = 2
    /\ ContentChunks[1].first_chunk
    /\ ~ContentChunks[2].first_chunk

\* C14: when the upstream ends before delivering a byte chunk, the
\* terminator is the only chunk ever emitted: as long as no byte chunk was
\* read the output is empty or the lone terminator, and the empty-response
\* exit is taken with exactly the terminator emitted.
C14_EmptyResponse ==
    /\ fed = <<>> => out \in {<<>>, <<DoneChunk>>}
    /\ (sh_pc = "empty_done" \/ sh_exit = "empty") => /\ fed = <<>>
                                                      /\ out = <<DoneChunk>>

\* C14's case: the generator ended on an empty response.
C14_Witness ==
    /\ sh_exit = "empty"
    /\ delivered = <<>>
    /\ out = <<DoneChunk>>

\* C15: the first-byte timeout is raised to the caller as
\* FirstTokenTimeoutError, and that error is raised only when nothing was
\* read and no chunk was emitted; stream() raises no other error.
C15_FirstTokenTimeout ==
    /\ sh_exit = "timeout" => sh_raised = "FirstTokenTimeoutError"
    /\ sh_raised = "FirstTokenTimeoutError" => /\ sh_exit = "timeout"
                                               /\ out = <<>>
                                               /\ fed = <<>>
    /\ sh_raised \in {"none", "FirstTokenTimeoutError"}

\* C15's case: the first read timed out.
C15_Witness ==
    /\ sh_pc = "ended"
    /\ sh_raised = "FirstTokenTimeoutError"
    /\ response_closed

\* C16: an exception other than the first-byte timeout ends the generator
\* without raising anything to the consumer; the chunks emitted before it
\* are all there is, with no final chunk and no terminator.
C16_MidStreamExceptionSwallowed ==
    sh_exit = "exception" =>
        /\ sh_raised = "none"
        /\ sh_pc = "ended"
        /\ \A i \in DOMAIN out : out[i].type = "content"

\* C16's case: an exception after two byte chunks were read and content was
\* emitted.
C16_Witness ==
    /\ sh_exit = "exception"
    /\ Len(fed) = 2
    /\ out # <<>>
    /\ sh_raised = "none"

\* C17: a final chunk carries "tool_calls" if a tool-call chunk was emitted
\* in the stream and "stop" if none was.
C17_FinishReason ==
    \A i \in DOMAIN out :
        out[i].type = "final" =>
            out[i].finish_reason =
                (IF ToolCallChunks # <<>> THEN "tool_calls" ELSE "stop")

\* C17's case: a final chunk with "tool_calls" after a tool-call chunk, in a
\* stream that also emitted content.
C17_Witness ==
    /\ FinalChunks # <<>>
    /\ FinalChunks[1].finish_reason = "tool_calls"
    /\ ToolCallChunks # <<>>
    /\ ContentChunks # <<>>

FoundCalls == native_tool_calls \o ParseBracketToolCalls(full_content)

FirstAt(calls, tc) == CHOOSE i \in DOMAIN calls :
                         calls[i] = tc /\ \A j \in 1..(i - 1) : calls[j] # tc

RoundDiv(n, d) ==
    LET q == n \div d
        r == n % d
    IN IF 2 * r < d THEN q
       ELSE IF 2 * r > d THEN q + 1
       ELSE IF q % 2 = 0 THEN q ELSE q + 1

\* C19 as stated: with a context usage percentage above 0, the final chunk
\* reports total_tokens = round(percent/100 * max_input_tokens) and
\* prompt_tokens = max(0, total_tokens - completion_tokens).
C19_ApiTotalRounded ==
    \A i \in DOMAIN out :
        (out[i].type = "final" /\ context_usage_percentage > 0) =>
            LET total == RoundDiv(context_usage_percentage * default_max_input_tokens,
                                  100000000)
            IN /\ out[i].usage.total_tokens = total
               /\ out[i].usage.prompt_tokens =
                     Max(0, total - out[i].usage.completion_tokens)

\* C19, amended: with a context usage percentage above 0 the API-derived
\* total is the product truncated to an integer; when that is at least 1
\* it is the total reported and the prompt count is max(0, total -
\* completion); when it is 0 the locally counted prompt tokens are reported
\* and the total is their sum with the completion tokens.
C19_ApiTotalTruncated ==
    \A i \in DOMAIN out :
        (out[i].type = "final" /\ context_usage_percentage > 0) =>
            LET total == (context_usage_percentage * default_max_input_tokens)
                            \div 100000000
                usage == out[i].usage
            IN /\ usage.completion_tokens = Len(full_content)
               /\ total >= 1 =>
                     /\ usage.total_tokens = total
                     /\ usage.prompt_tokens = Max(0, total - usage.completion_tokens)
               /\ total = 0 =>
                     /\ usage.prompt_tokens = request_prompt_tokens
                     /\ usage.total_tokens =
                           request_prompt_tokens + usage.completion_tokens

\* C19's cases: a percentage whose product is 1.8, reported as 1 with more
\* completion tokens than that, so that the prompt count is 0 and the
\* local count of 3 is not used.
C19_Witness ==
    /\ FinalChunks # <<>>
    /\ context_usage_percentage = 900
    /\ request_prompt_tokens = 3
    /\ Len(full_content) = 2
    /\ FinalChunks[1].usage.total_tokens = 1
    /\ FinalChunks[1].usage.prompt_tokens = 0

DoneChunks == SelectSeq(out, LAMBDA c : c.type = "done")

\* C27 as stated: the byte chunks fed to the parser are the byte chunks the
\* upstream delivered, each once and in arrival order.
C27_EveryChunkFedOnce == fed = delivered

\* The generator ended on an error of the upstream transfer itself.
UpstreamFailed ==
    sh_exit = "exception" /\ SecondAiterBytes(response_kind) = "resumes"

\* C28 as stated: a stream that read a byte chunk and ended, with no error
\* of the upstream transfer, no first-byte timeout and a consumer that
\* stayed, has emitted exactly one final chunk and after it exactly one
\* terminator; no stream has emitted two terminators.
C28_StreamCompletion ==
    /\ Len(DoneChunks) <= 1
    /\ (sh_pc = "ended" /\ fed # <<>> /\ sh_exit # "abandoned" /\ ~UpstreamFailed) =>
          /\ Len(FinalChunks) = 1
          /\ Len(DoneChunks) = 1
          /\ Len(out) >= 2
          /\ out[Len(out) - 1].type = "final"
          /\ out[Len(out)].type = "done"

\* C29 as stated: in a final chunk prompt_tokens is not negative and
\* prompt_tokens + completion_tokens = total_tokens.
C29_UsageSums ==
    \A i \in DOMAIN out :
        out[i].type = "final" =>
            /\ out[i].usage.prompt_tokens >= 0
            /\ out[i].usage.prompt_tokens + out[i].usage.completion_tokens
                  = out[i].usage.total_tokens

\* C29, amended: in a final chunk prompt_tokens is not negative; the three
\* numbers add up on the local path, and on the API-derived path when the
\* completion tokens do not exceed the API-derived total; when they do,
\* prompt_tokens is 0 and total_tokens, the API-derived value, is less than
\* completion_tokens.
C29_UsageSumsUnlessClamped ==
    \A i \in DOMAIN out :
        out[i].type = "final" =>
            LET usage == out[i].usage
                api == IF context_usage_percentage > 0
                       THEN (context_usage_percentage * default_max_input_tokens)
                               \div 100000000
                       ELSE 0
            IN /\ usage.prompt_tokens >= 0
               /\ (api = 0 \/ usage.completion_tokens <= api) =>
                     usage.prompt_tokens + usage.completion_tokens = usage.total_tokens
               /\ (api > 0 /\ usage.completion_tokens > api) =>
                     /\ usage.prompt_tokens = 0
                     /\ usage.total_tokens = api
                     /\ usage.total_tokens < usage.completion_tokens

\* C29's case: an API-derived total of 10 with one completion token, the
\* prompt count being the difference.
C29_Witness ==
    /\ FinalChunks # <<>>
    /\ context_usage_percentage = 5000
    /\ FinalChunks[1].usage.total_tokens = 10
    /\ FinalChunks[1].usage.completion_tokens = 1
    /\ FinalChunks[1].usage.prompt_tokens = 9

-----------------------------------------------------------------------------
(* Properties of ModelInfoCache, checked under SpecCache *)

\* The maxInputTokens the entry read by the latest call holds for the model
\* asked about: Absent when the model, its tokenLimits or the key is missing.
HeldMaxInputTokens ==
    LET c == max_input_call.read
        id == max_input_call.model_id
    IN IF id \in DOMAIN c /\ c[id].tokenLimits.kind = "dict"
       THEN c[id].tokenLimits.maxInputTokens
       ELSE Absent

-----------------------------------------------------------------------------
(* Properties of get_internal_model_id, checked under SpecMapping *)

\* C26: a name of the table is mapped to the table's id for it and any
\* other name is returned as it is; a call on the result of a call returns
\* that result again; every advertised model id is a name of the table.
C26_ModelNameMapping ==
    /\ \A i \in DOMAIN mapping_calls :
          LET call == mapping_calls[i]
          IN /\ call.external_model \in DOMAIN MODEL_MAPPING =>
                   call.internal = MODEL_MAPPING[call.external_model]
             /\ call.external_model \notin DOMAIN MODEL_MAPPING =>
                   call.internal = call.external_model
    /\ \A i \in 1..(Len(mapping_calls) - 1) :
          (mapping_calls[i + 1].chained
              \/ mapping_calls[i + 1].external_model = mapping_calls[i].internal) =>
             /\ mapping_calls[i + 1].external_model = mapping_calls[i].internal
             /\ mapping_calls[i + 1].internal = mapping_calls[i].internal
    /\ \A k \in DOMAIN AVAILABLE_MODELS : AVAILABLE_MODELS[k] \in DOMAIN MODEL_MAPPING

\* C26's case: "auto" mapped to its upstream id, and that id mapped again
\* to itself.
C26_Witness ==
    /\ Len(mapping_calls) = 2
    /\ mapping_calls[1].external_model = "auto"
    /\ mapping_calls[1].internal = "claude-sonnet-4.5"
    /\ mapping_calls[2].chained
    /\ mapping_calls[2].external_model = "claude-sonnet-4.5"
    /\ mapping_calls[2].internal = "claude-sonnet-4.5"

-----------------------------------------------------------------------------
(* Properties of inbound authentication, checked under SpecInbound *)

\* The request carries what the claim asks of its route.
CarriesProxyKey(request) ==
    \/ request.authorization = "Bearer " \o PROXY_API_KEY
    \/ request.endpoint = "/v1/messages" /\ request.x_api_key = PROXY_API_KEY

\* C24 as stated: a request is in its handler, or has touched the cache or
\* the upstream, only if it carries the proxy key the way its route accepts
\* it; every other request is answered with 401, having touched neither.
C24_InboundAuthentication ==
    /\ (in_pc = "handler" \/ in_effects # {} \/ in_status \in {200, 429}) =>
          CarriesProxyKey(in_request)
    /\ (in_pc = "responded" /\ ~CarriesProxyKey(in_request)) =>
          /\ in_status = 401
          /\ in_effects = {}

-----------------------------------------------------------------------------
(* Properties of the auth manager, checked under SpecAuth *)

\* Every caller so far called get_access_token while the credential was
\* expired, and no refresh request failed.
OnlyExpiredGets ==
    /\ am_failures = 0
    /\ \A c \in Callers :
          am_pc[c] # "idle" => am_op[c] = "get" /\ am_expired_at_call[c]

\* C25: at most one refresh request is in flight at any time, and only the
\* holder of the lock sends one; when the callers all called
\* get_access_token on an expired credential and the refresh does not
\* fail, at most one refresh is sent, exactly one once a caller has
\* returned, and every caller that returned got the credential it minted.
C25_SingleFlightRefresh ==
    /\ Cardinality({c \in Callers : am_pc[c] = "refreshing"}) <= 1
    /\ \A c \in Callers : am_pc[c] \in {"locked", "refreshing"} => am_lock = c
    /\ OnlyExpiredGets =>
          /\ am_refreshes <= 1
          /\ \A c \in Callers :
                am_pc[c] = "done" => /\ am_refreshes = 1
                                     /\ am_valid
                                     /\ am_got[c] = am_credential

\* C25's case: three callers called while the credential was expired, one
\* refresh was made, and all three returned with the minted credential.
C25_Witness ==
    /\ OnlyExpiredGets
    /\ \A c \in Callers : am_pc[c] = "done" /\ am_got[c] = am_credential
    /\ am_refreshes = 1
    /\ am_credential = 2

-----------------------------------------------------------------------------
(* Properties of the model cache's life, checked under SpecCacheRefresh *)

C22_AtomicReplacement ==
    /\ cache = IF last_published = NothingPublished
               THEN <<>>
               ELSE ModelsById(last_published[1])
    /\ \E models_data \in RefreshAnswers :
          observed.view = Observation(ModelsById(models_data))

\* C22's case: a reader saw the map of one update while another runner's
\* update replaced it by a map of another model.
C22_Witness ==
    /\ observed.seen
    /\ observed.view.get_all_model_ids = {"m1"}
    /\ last_published # NothingPublished
    /\ cache = ModelsById(last_published[1])
    /\ DOMAIN cache = {"m2"}
    /\ rf_status["background"] = "published"
    /\ rf_status["get_models"] = "published"

\* C23, as stated: a background task that was stopped has completed the
\* refresh it had started.
C23_CancellationCompletesIteration ==
    rf_pc["background"] = "stopped" => rf_status["background"] # "started"

\* C23, as the code has it: stop_background_refresh stops the task at
\* whichever await it is suspended at; a refresh cancelled while it awaits
\* the token or the answer is abandoned and not published; a stopped task
\* stays stopped and publishes nothing.
C23_CancellationAbandonsIteration ==
    /\ [](/\ rf_pc["lifespan"] = "stopped" => rf_pc["background"] = "stopped"
          /\ rf_pc["background"] = "stopped" =>
                /\ bg_cancelled_at \in {"sleeping", "token", "fetch", "closing"}
                /\ bg_cancelled_at \in {"token", "fetch"}
                      <=> rf_status["background"] = "started")
    /\ [][rf_pc["background"] = "stopped" =>
             /\ rf_pc'["background"] = "stopped"
             /\ rf_status'["background"] = rf_status["background"]
             /\ (last_published' # last_published \/ last_update' # last_update)
                   => rf_pc["get_models"] = "fetch"]_vars

\* C23's case: the task was cancelled while awaiting upstream's answer;
\* the cache still holds what the startup refresh published.
C23_Witness ==
    /\ rf_pc["background"] = "stopped"
    /\ bg_cancelled_at = "fetch"
    /\ rf_status["background"] = "started"
    /\ rf_status["lifespan"] = "published"
    /\ last_update = 1
    /\ now = 2

-----------------------------------------------------------------------------
(* Further properties of request_with_retry, checked under SpecRetry *)

\* C31: a call that has ended performed at most one backoff sleep less
\* than it sent requests: no sleep follows the last attempt.
C31_SleepsOnlyBetweenAttempts ==
    (rr_pc = "done" /\ NumSends >= 1) => Len(Sleeps) <= NumSends - 1

\* The responses the call opened, neither closed nor returned to its caller.
LeakedResponses ==
    { i \in DOMAIN Sends :
        /\ OpensResponse(stream, Sends[i].kind)
        /\ ~ClosedByRetryLoop(Sends[i].status)
        /\ ~(rr_result.kind = "return" /\ i = Len(Sends)) }

\* C32: when a streaming call has ended, every response it opened and did
\* not return is closed.
C32_NoLeakedResponses ==
    (rr_pc = "done" /\ stream) => LeakedResponses = {}

-----------------------------------------------------------------------------
(* Properties of the global HTTP client, checked under SpecClient *)

\* The get_client callers that have their client.
GotClient == {c \in ClientCallers : hc_op[c] = "get_client" /\ hc_pc[c] = "done"}

\* C33: the timeout in force for the requests of a call is the timeout
\* the call selected for its mode.
C33_SelectedTimeoutInForce ==
    \A c \in GotClient :
        TimeoutInForce(hc_clients, hc_got[c]) = SelectedTimeout(hc_stream[c])

\* C34: a client is open at the moment get_client returns it; at most one
\* client is open at any time, and it is the one the manager holds, so
\* callers that got different clients were separated by a close; a client
\* is only ever created when every earlier one is closed.
C34_SingleSharedClient ==
    /\ \A c \in GotClient : hc_got[c] # 0 /\ ~hc_closed_at_return[c]
    /\ \A i \in DOMAIN hc_clients : ~hc_clients[i].closed => i = hc_client
    /\ hc_client = Len(hc_clients)
    /\ \A c, d \in GotClient :
          hc_got[c] < hc_got[d] => hc_clients[hc_got[c]].closed
    /\ \A c \in ClientCallers :
          hc_pc[c] = "closing" => hc_lock = c /\ hc_clients[hc_client].closed

\* C34's case: two callers received the one client created for them, it
\* was closed, and a caller that waited for the close to end received a
\* fresh, open client.
C34_Witness ==
    /\ Len(hc_clients) = 2
    /\ \E c, d, e \in GotClient :
          /\ c # d
          /\ hc_got[c] = 1 /\ hc_got[d] = 1
          /\ hc_got[e] = 2
    /\ hc_clients[1].closed
    /\ ~hc_clients[2].closed
    /\ \E c \in GotClient : hc_waited[c] /\ hc_got[c] = 2

-----------------------------------------------------------------------------
(* Further properties of the model cache's life, checked under           *)
(* SpecCacheRefresh                                                       *)

\* The callers of ModelInfoCache.refresh.
RefreshCallers == {"lifespan", "background"}

\* A step in which a refresh call ends in failure (it returns False).
RefreshFails ==
    \E r \in RefreshCallers : rf_status[r] = "started" /\ rf_status'[r] = "failed"

\* A refresh call of the background task ended by raising to the loop.
RefreshRaised ==
    /\ rf_pc["background"] = "stopped"
    /\ bg_cancelled_at \in {"token", "fetch", "closing"}

\* C35, as stated: a refresh that fails leaves the model map and
\* last_update as they were, and no refresh call ever raises to its caller.
C35_FailedRefreshInertNeverRaises ==
    /\ [][RefreshFails => UNCHANGED <<cache, last_update>>]_vars
    /\ []~RefreshRaised

\* C35, as the code has it: a refresh that fails leaves the model map and
\* last_update as they were; a refresh call raises to its caller only when
\* the task running it is cancelled, by stop_background_refresh, and the
\* cancellation itself changes neither.
C35_FailedRefreshInert ==
    /\ [][RefreshFails => UNCHANGED <<cache, last_update, last_published>>]_vars
    /\ [][(rf_pc["background"] # "stopped" /\ rf_pc'["background"] = "stopped")
             => UNCHANGED <<cache, last_update, last_published>>]_vars
    /\ [](RefreshRaised => rf_pc["lifespan"] = "stopped")

\* C35's case: the startup refresh published models, a background refresh
\* failed a tick later, and the cache is as the startup refresh left it.
C35_Witness ==
    /\ rf_status["lifespan"] = "published"
    /\ rf_status["background"] = "failed"
    /\ rf_status["get_models"] = "none"
    /\ ~is_empty(cache)
    /\ last_update = 1
    /\ now = 2

-----------------------------------------------------------------------------
(* Properties of the background refresh task, checked under SpecTask *)

\* The tasks that are not done.
LiveTasks == {i \in DOMAIN rt_tasks : ~TaskDone(rt_tasks[i])}

\* C36: at most one task is alive at any time, and it is the one the cache
\* holds; a task ends only by being cancelled, so not by a failed refresh;
\* once stop_background_refresh has returned, and until the next start, no
\* task is alive, is_background_refresh_running is false and no refresh is
\* started.
C36_OneRefreshTask ==
    /\ [](/\ Cardinality(LiveTasks) <= 1
          /\ LiveTasks \subseteq {rt_task}
          /\ \A i \in DOMAIN rt_tasks :
                TaskDone(rt_tasks[i]) => rt_tasks[i].cancelled
          /\ rt_last_call = "stop" =>
                /\ LiveTasks = {}
                /\ ~is_background_refresh_running(rt_task, rt_tasks))
    /\ [][rt_last_call = "stop" /\ rt_last_call' = "stop"
             => rt_tasks' = rt_tasks]_vars

\* C36's case: start was called again while the task was running, after a
\* refresh of it had failed; the task was then stopped, and a second one
\* started later.
C36_Witness ==
    /\ Len(rt_tasks) = 2
    /\ rt_tasks[1].refresh = "False"
    /\ TaskDone(rt_tasks[1])
    /\ rt_tasks[2].at = "refreshing"
    /\ rt_last_call = "start"

-----------------------------------------------------------------------------
(* Claims about the metrics                                                *)

\* The requests between entry and exit of MetricsMiddleware.dispatch.
RequestsInside == {r \in MetricRequests : mt_pc[r] = "inside"}

\* C37: the active-connections gauge is never negative and always equals
\* the number of requests between entry and exit of the middleware; once
\* every request that entered has left, by a response, by an exception or by
\* cancellation, the gauge is 0.
C37_GaugeCountsRequestsInside ==
    /\ active_connections >= 0
    /\ active_connections = Cardinality(RequestsInside)
    /\ (\A r \in MetricRequests : mt_pc[r] # "inside") => active_connections = 0

\* C37's case: one request left with a response and the other by an
\* exception of its handler, and none is inside.
C37_Witness ==
    /\ \A r \in MetricRequests : mt_pc[r] = "finished"
    /\ "RuntimeError" \in DOMAIN error_total
    /\ \E k \in DOMAIN request_total : k[Len(k) - 2] = "200"
    /\ active_connections = 0

\* The request count get_metrics reports for an endpoint.
RequestsOf(endpoint) ==
    LET byEndpoint == AggregateByEndpoint(request_total)
    IN IF endpoint \in DOMAIN byEndpoint THEN byEndpoint[endpoint] ELSE 0

\* The latency count of an endpoint.
LatencyCountOf(endpoint) ==
    IF endpoint \in DOMAIN latency_count THEN latency_count[endpoint] ELSE 0

\* C38: for every endpoint, the latency count equals the sum of the request
\* counters of that endpoint.
C38_LatencyCountIsRequestCount ==
    \A endpoint \in DOMAIN latency_count \cup DOMAIN AggregateByEndpoint(request_total) :
        LatencyCountOf(endpoint) = RequestsOf(endpoint)

\* The observations of an endpoint, among those recorded when the export
\* was made, whose latency is at most the bound of bucket i.
ObservationsWithin(recorded, endpoint, i) ==
    SumOf([l \in Latencies |-> recorded[endpoint, l]],
          {l \in Latencies : Leq(l, LATENCY_BUCKETS[i])})

\* C39: for every endpoint and every bucket, the value export_prometheus
\* writes for the bucket is the number of recorded observations with a
\* latency of at most the bucket's bound; the value of the +Inf bucket is
\* the exported _count.
C39_ExportedBucketsCountObservations ==
    exported.seen =>
        \A endpoint \in DOMAIN exported.lines :
            /\ \A i \in DOMAIN LATENCY_BUCKETS :
                  exported.lines[endpoint].bucket[i] =
                      ObservationsWithin(exported.observed, endpoint, i)
            /\ exported.lines[endpoint].bucket[Len(LATENCY_BUCKETS)] =
                   exported.lines[endpoint].count

====
